---- MODULE Spec2Model ----
(***************************************************************************)
(* A model of jira-downloader: the tracker client's API-version            *)
(* negotiation (src/src/jira.rs), the download orchestrator and its        *)
(* per-item state cells (src/src/downloader.rs), the on-disk storage       *)
(* layout with its control files (src/src/storage.rs) and the UI event     *)
(* loop that drives them (src/src/app.rs), and the configuration with its  *)
(* encrypted token (src/src/config.rs).                                    *)
(*                                                                         *)
(* Strings that the code inspects character by character (issue keys,      *)
(* statuses, file names, dates) are sequences of one-character strings.    *)
(***************************************************************************)
EXTENDS Integers, Sequences, FiniteSets, TLC

VARIABLES
    tab,            \* App.tab: which tab update() renders
    fetch_status,   \* App.fetch_status: Option<Result<IssueInfo, String>>
    current_issue,  \* App.current_issue: Option<IssueInfo>
    download_items, \* App.download_items: Vec<DownloadItem> (state = a cell id)
    cells,          \* the Arc<Mutex<FileState>> cells that are still referenced
    units,          \* the download tasks spawned by start_download, in flight
    fetches,        \* the fetch_issue tasks spawned by do_fetch, in flight
    disk,           \* the download directory: one entry per issue directory
    incidents,      \* App.incidents: Vec<IncidentFolder>
    check_status,   \* App.check_status: Vec<(String, Result<String, String>)>
    checks,         \* the fetch_issue_status tasks in flight
    delete_confirm, \* App.delete_confirm: Option<String>
    spawned,        \* number of tasks handed to the runtime so far
    my_issues,          \* App.my_issues: Vec<IssueSummary>
    my_issues_loading,  \* App.my_issues_loading: bool
    my_issues_error,    \* App.my_issues_error: Option<String>
    my_issues_status,   \* App.my_issues_status: Option<Result<Vec<IssueSummary>, String>>
    loads,              \* the fetch_my_issues tasks spawned by load_my_issues, in flight
    limit,          \* number of tasks the run may hand to the runtime
    config,         \* App.config: AppConfig
    config_file,    \* the configuration file config.json
    srv,            \* client runs: the tracker's answers per API version
    out             \* client runs: the outcome of the call made

vars == <<tab, fetch_status, current_issue, download_items, cells, units,
          fetches, disk, incidents, check_status, checks, delete_confirm,
          spawned, my_issues, my_issues_loading, my_issues_error,
          my_issues_status, loads, limit, config, config_file, srv, out>>

\* the "My Open Cases" panel of the Incident tab
myVars == <<my_issues, my_issues_loading, my_issues_error, my_issues_status,
            loads>>

appVars == <<tab, fetch_status, current_issue, download_items, cells,
             units, fetches, disk, incidents, check_status, checks,
             delete_confirm, spawned, myVars>>

(***************************************************************************)
(* Bounds of the model.                                                    *)
(***************************************************************************)
\* tasks (fetches, status checks, download units) spawned in one run of the
\* Incident tab, and in one run of the whole application
MaxTasks == 3
MaxAppTasks == MaxTasks - 1

(***************************************************************************)
(* Option and Result values.                                               *)
(***************************************************************************)
None == [some |-> FALSE]
Some(v) == [some |-> TRUE, val |-> v]
Ok(v) == [ok |-> TRUE, val |-> v]
Err(e) == [ok |-> FALSE, err |-> e]

(***************************************************************************)
(* Text.                                                                   *)
(***************************************************************************)
LowerChars == <<"a","b","c","d","e","f","g","h","i","j","k","l","m",
                "n","o","p","q","r","s","t","u","v","w","x","y","z">>
UpperChars == <<"A","B","C","D","E","F","G","H","I","J","K","L","M",
                "N","O","P","Q","R","S","T","U","V","W","X","Y","Z">>
DigitChars == <<"0","1","2","3","4","5","6","7","8","9">>

\* the characters of the model in ascending byte order
ByteOrder == <<" ", "-", ".", "/">> \o DigitChars \o <<":", "?">> \o UpperChars
             \o <<"_">> \o LowerChars

IndexIn(seq, c) == CHOOSE i \in 1..Len(seq) : seq[i] = c
Occurs(seq, c) == \E i \in 1..Len(seq) : seq[i] = c

is_ascii_alphabetic(c) == Occurs(LowerChars, c) \/ Occurs(UpperChars, c)
is_ascii_digit(c) == Occurs(DigitChars, c)

to_lowercase(s) ==
    [i \in 1..Len(s) |->
        IF Occurs(UpperChars, s[i]) THEN LowerChars[IndexIn(UpperChars, s[i])]
        ELSE s[i]]
to_uppercase(s) ==
    [i \in 1..Len(s) |->
        IF Occurs(LowerChars, s[i]) THEN UpperChars[IndexIn(LowerChars, s[i])]
        ELSE s[i]]

starts_with(s, p) == Len(p) <= Len(s) /\ SubSeq(s, 1, Len(p)) = p
contains(s, p) ==
    \E i \in 1..(Len(s) + 1) :
        i + Len(p) - 1 <= Len(s) /\ SubSeq(s, i, i + Len(p) - 1) = p

\* byte-wise comparison of two strings (str::cmp)
str_lt(a, b) ==
    \E i \in 1..(Len(b)) :
        /\ \A j \in 1..(i - 1) : j <= Len(a) /\ a[j] = b[j]
        /\ \/ i = Len(a) + 1
           \/ i <= Len(a) /\ IndexIn(ByteOrder, a[i]) < IndexIn(ByteOrder, b[i])

\* format!("{n}") of an unsigned number
RECURSIVE fmt_num(_)
fmt_num(n) ==
    IF n < 10 THEN <<DigitChars[n + 1]>>
    ELSE fmt_num(n \div 10) \o <<DigitChars[(n % 10) + 1]>>

\* zero-padded to width w, as chrono's %Y, %m, %d do
fmt_pad(n, w) ==
    IF Len(fmt_num(n)) >= w THEN fmt_num(n)
    ELSE [i \in 1..(w - Len(fmt_num(n))) |-> "0"] \o fmt_num(n)

\* DateTime::format("%Y-%m-%d"), the date being <<year, month, day>>
format_date(created) ==
    fmt_pad(created[1], 4) \o <<"-">> \o fmt_pad(created[2], 2) \o <<"-">>
    \o fmt_pad(created[3], 2)

(***************************************************************************)
(* Issue keys (jira.rs).                                                   *)
(***************************************************************************)
is_valid_issue_key(s) ==
    IF Occurs(s, "-")
    THEN LET dash_pos == CHOOSE i \in 1..Len(s) :
                            s[i] = "-" /\ \A j \in 1..(i - 1) : s[j] # "-"
             prefix == SubSeq(s, 1, dash_pos - 1)
             suffix == SubSeq(s, dash_pos + 1, Len(s))
         IN  /\ prefix # <<>>
             /\ suffix # <<>>
             /\ \A i \in 1..Len(prefix) : is_ascii_alphabetic(prefix[i])
             /\ \A i \in 1..Len(suffix) : is_ascii_digit(suffix[i])
    ELSE FALSE

\* str::trim for the blanks of the model
RECURSIVE trim(_)
trim(s) ==
    IF s # <<>> /\ Head(s) = " " THEN trim(Tail(s))
    ELSE IF s # <<>> /\ s[Len(s)] = " " THEN trim(SubSeq(s, 1, Len(s) - 1))
    ELSE s

\* str::split(ch).collect()
RECURSIVE split(_, _)
split(s, ch) ==
    IF ~Occurs(s, ch) THEN <<s>>
    ELSE LET i == CHOOSE k \in 1..Len(s) :
                     s[k] = ch /\ \A j \in 1..(k - 1) : s[j] # ch
         IN  <<SubSeq(s, 1, i - 1)>> \o split(SubSeq(s, i + 1, Len(s)), ch)

\* parse_issue_key without the last-segment fallback of the URL branch
parse_issue_key_browse_only(raw) ==
    LET input == trim(raw) IN
    IF starts_with(input, <<"h","t","t","p">>)
    THEN LET parts == split(input, "/")
             keyAt(i) == split(parts[i], "?")[1]
             hits == {i \in 1..Len(parts) :
                         /\ parts[i] \in {<<"b","r","o","w","s","e">>,
                                          <<"i","s","s","u","e","s">>}
                         /\ i + 1 <= Len(parts)
                         /\ is_valid_issue_key(keyAt(i + 1))}
         IN  IF hits # {}
             THEN Some(to_uppercase(keyAt((CHOOSE i \in hits :
                                            \A j \in hits : i <= j) + 1)))
             ELSE None
    ELSE IF is_valid_issue_key(input) THEN Some(to_uppercase(input))
    ELSE None

\* parse_issue_key: the trimmed input as a key, or, for an input that
\* starts with http, the segment after the first browse or issues segment
\* that is followed by a key, or else the last segment
parse_issue_key(raw) ==
    LET input == trim(raw) IN
    IF starts_with(input, <<"h","t","t","p">>)
    THEN LET parts == split(input, "/")
             keyAt(i) == split(parts[i], "?")[1]
             hits == {i \in 1..Len(parts) :
                         /\ parts[i] \in {<<"b","r","o","w","s","e">>,
                                          <<"i","s","s","u","e","s">>}
                         /\ i + 1 <= Len(parts)
                         /\ is_valid_issue_key(keyAt(i + 1))}
         IN  IF hits # {}
             THEN Some(to_uppercase(keyAt((CHOOSE i \in hits :
                                            \A j \in hits : i <= j) + 1)))
             ELSE IF is_valid_issue_key(keyAt(Len(parts)))
             THEN Some(to_uppercase(keyAt(Len(parts))))
             ELSE None
    ELSE IF is_valid_issue_key(input) THEN Some(to_uppercase(input))
    ELSE None

(***************************************************************************)
(* The tracker's data: issues, attachments, statuses.                      *)
(***************************************************************************)
KeyA == <<"A", "-", "1">>
KeyB == <<"B", "-", "2">>
Keys == {KeyA, KeyB}

\* what the user may type into the incident input
Inputs == {<<"a", "-", "1">>, <<" ", "B", "-", "2">>, <<"a", "1">>}

StOpen == <<"O", "p", "e", "n">>
StClosed == <<"C", "l", "o", "s", "e", "d">>
Statuses == {StOpen, StClosed}

NameRP == <<"r", ".", "p">>
NameN == <<"n">>

\* Attachment {id, filename, size, created}; the bytes behind content are
\* identified by the attachment id
Att1 == [id |-> "10", filename |-> NameRP, size |-> 1, created |-> <<2024, 1, 15>>]
Att2 == [id |-> "11", filename |-> NameRP, size |-> 1, created |-> <<2024, 1, 15>>]
Att3 == [id |-> "20", filename |-> NameN, size |-> 1, created |-> <<1970, 1, 1>>]

RemoteAttachments(key) == IF key = KeyA THEN <<Att1, Att2>> ELSE <<Att3>>
RemoteSummary(key) == IF key = KeyA THEN "first" ELSE "second"

(***************************************************************************)
(* Storage (storage.rs). disk[key] is the issue directory base_dir/key:    *)
(* whether it exists, its control file, its date directories and its       *)
(* files, a function from <<date, name>> to content.                       *)
(***************************************************************************)
NoFiles == [p \in {} |-> ""]
NoDir == [exists |-> FALSE, ctrl |-> None, dates |-> {}, files |-> NoFiles]

\* ControlFile::new
ControlFile_new(key, summary, status) ==
    [issue_key |-> key, issue_summary |-> summary, issue_status |-> status,
     marked_for_deletion |-> FALSE]

\* is_closed without the substring tests
is_closed_exact(ctrl) ==
    LET s == to_lowercase(ctrl.issue_status) IN
    \/ s = <<"d", "o", "n", "e">>
    \/ s = <<"c", "l", "o", "s", "e", "d">>
    \/ s = <<"r", "e", "s", "o", "l", "v", "e", "d">>

\* ControlFile::is_closed
is_closed(ctrl) ==
    LET s == to_lowercase(ctrl.issue_status) IN
    \/ s = <<"d", "o", "n", "e">>
    \/ s = <<"c", "l", "o", "s", "e", "d">>
    \/ s = <<"r", "e", "s", "o", "l", "v", "e", "d">>
    \/ contains(s, <<"c", "l", "o", "s">>)
    \/ contains(s, <<"r", "e", "s", "o", "l", "v">>)

\* Path::exists of base_dir/key/date/name
path_exists(d, key, date, name) ==
    d[key].exists /\ <<date, name>> \in DOMAIN d[key].files

\* attachment_exists looking for the file name under every date directory
attachment_exists_any_date(d, key, att) ==
    d[key].exists /\ \E p \in DOMAIN d[key].files : p[2] = att.filename

\* StorageManager::attachment_exists
attachment_exists(d, key, att) ==
    path_exists(d, key, format_date(att.created), att.filename)

\* the outcomes of the file-system calls of save_control_file and of
\* delete_folder
IoOutcomes == {"ok", "mkdir_err", "write_err"}
SaveOutcomes == IoOutcomes
DeleteOutcomes == {"ok", "io_err"}

\* StorageManager::save_control_file: create_dir_all, then write
save_control_file(d, ctrl, io) ==
    IF io = "mkdir_err" THEN [result |-> Err("Failed to create issue dir"), disk |-> d]
    ELSE IF io = "write_err"
    THEN [result |-> Err("Write error"),
          disk |-> [d EXCEPT ![ctrl.issue_key].exists = TRUE]]
    ELSE [result |-> Ok("saved"),
          disk |-> [d EXCEPT ![ctrl.issue_key].exists = TRUE,
                             ![ctrl.issue_key].ctrl = Some(ctrl)]]

\* Path::file_stem and Path::extension of a file name
LastDot(name) == CHOOSE i \in 1..Len(name) :
                    name[i] = "." /\ \A j \in (i + 1)..Len(name) : name[j] # "."
HasExtension(name) ==
    Occurs(name, ".") /\ name # <<".", ".">> /\ LastDot(name) > 1
file_stem(name) ==
    IF HasExtension(name) THEN SubSeq(name, 1, LastDot(name) - 1) ELSE name
extension(name) ==
    IF HasExtension(name) THEN Some(SubSeq(name, LastDot(name) + 1, Len(name)))
    ELSE None

\* format!("{stem}_{counter}{ext}")
candidate_name(filename, counter) ==
    file_stem(filename) \o <<"_">> \o fmt_num(counter)
    \o (IF extension(filename).some
        THEN <<".">> \o extension(filename).val ELSE <<>>)

\* resolve_conflict with the counter starting at 1
resolve_conflict_from_1(d, key, date, filename) ==
    IF ~path_exists(d, key, date, filename) THEN filename
    ELSE LET free(n) == ~path_exists(d, key, date, candidate_name(filename, n))
             top == Cardinality(DOMAIN d[key].files) + 2
             counter == CHOOSE n \in 1..top :
                            free(n) /\ \A m \in 1..(n - 1) : ~free(m)
         IN  candidate_name(filename, counter)

\* resolve_conflict: the plain name, or the first free stem_N.ext from N = 2
resolve_conflict(d, key, date, filename) ==
    IF ~path_exists(d, key, date, filename) THEN filename
    ELSE LET free(n) == ~path_exists(d, key, date, candidate_name(filename, n))
             top == Cardinality(DOMAIN d[key].files) + 2
             counter == CHOOSE n \in 2..top :
                            free(n) /\ \A m \in 2..(n - 1) : ~free(m)
         IN  candidate_name(filename, counter)

\* the test of latest_date_folder on a directory name: ten bytes with a
\* dash at byte 4 and at byte 7
is_date_dir_name(name) ==
    Len(name) = 10 /\ name[5] = "-" /\ name[8] = "-"

\* the greatest of a non-empty set of names: date_dirs.sort() and last()
last_sorted(names) ==
    CHOOSE n \in names : \A m \in names : m = n \/ str_lt(m, n)

\* StorageManager::latest_date_folder: the path of the greatest
\* subdirectory of the issue directory that passes the name test, or the
\* issue directory
latest_date_folder(d, key) ==
    LET date_dirs == {n \in d[key].dates : is_date_dir_name(n)} IN
    IF ~d[key].exists \/ date_dirs = {} THEN <<key>>
    ELSE <<key, last_sorted(date_dirs)>>

\* create_dir_all(base_dir/key/date)
create_date_dir(d, key, date) ==
    [d EXCEPT ![key].exists = TRUE, ![key].dates = @ \cup {date}]

\* std::fs::write(base_dir/key/date/name, data): creates or truncates the
\* file; it does not create the directory
can_write(d, key, date) == d[key].exists /\ date \in d[key].dates
write_file(d, key, date, name, data) ==
    [d EXCEPT ![key].files =
        [p \in (DOMAIN @) \cup {<<date, name>>} |->
            IF p = <<date, name>> THEN data ELSE @[p]]]

\* StorageManager::delete_folder: remove_dir_all when the directory exists
delete_folder(d, key, io) ==
    IF ~d[key].exists THEN [result |-> Ok("deleted"), disk |-> d]
    ELSE IF io # "ok" THEN [result |-> Err("Failed to delete folder"), disk |-> d]
    ELSE [result |-> Ok("deleted"), disk |-> [d EXCEPT ![key] = NoDir]]

\* Vec::sort_by on the control file's issue key
RECURSIVE sort_by_key(_)
sort_by_key(S) ==
    IF S = {} THEN <<>>
    ELSE LET m == CHOOSE x \in S :
                     \A y \in S : ~str_lt(y.control.issue_key, x.control.issue_key)
         IN  <<m>> \o sort_by_key(S \ {m})

\* an entry of the base directory: nothing, a regular file, or a directory
\* with its .jira_control.json: missing, unreadable, no ControlFile JSON, or
\* the JSON of a control file
Absent == [kind |-> "absent"]
RegularFile == [kind |-> "file"]
Dir(ctrl_file) == [kind |-> "dir", ctrl_file |-> ctrl_file]
CtrlMissing == [state |-> "missing"]
CtrlUnreadable == [state |-> "unreadable"]
CtrlGarbage == [state |-> "garbage"]
CtrlJson(ctrl) == [state |-> "json", control |-> ctrl]

\* Vec::sort_by on the path, not on the control file's key
RECURSIVE sort_by_path(_)
sort_by_path(S) ==
    IF S = {} THEN <<>>
    ELSE LET m == CHOOSE x \in S : \A y \in S : ~str_lt(y.path, x.path)
         IN  <<m>> \o sort_by_path(S \ {m})

\* the directories that is_dir, exists, read_to_string and from_str let
\* through, as IncidentFolder records
incident_folders(base) ==
    {[path |-> n, control |-> base[n].ctrl_file.control] :
        n \in {n \in DOMAIN base : /\ base[n].kind = "dir"
                                    /\ base[n].ctrl_file.state = "json"}}

\* a scan that orders the folders by their directory name
scan_dir_by_path(base) == sort_by_path(incident_folders(base))

\* StorageManager::scan_incidents on the listing of the base directory
scan_dir(base) == sort_by_key(incident_folders(base))

\* the application's download directory as a listing: every issue directory
\* is named by its key
as_entry(dir) ==
    IF ~dir.exists THEN Absent
    ELSE Dir(IF dir.ctrl.some THEN CtrlJson(dir.ctrl.val) ELSE CtrlMissing)

drop_paths(folders) == [i \in 1..Len(folders) |-> [control |-> folders[i].control]]

\* StorageManager::scan_incidents on the application's download directory
scan_incidents(d) == drop_paths(scan_dir([k \in DOMAIN d |-> as_entry(d[k])]))

(***************************************************************************)
(* Configuration (config.rs). The encrypted token is the empty text or a   *)
(* blob sealed under a key of the registry with a random nonce; a blob     *)
(* opens only under the key that sealed it.                                *)
(***************************************************************************)
Sealed(token, key, nonce) == [sealed |-> token, key |-> key, nonce |-> nonce]

\* impl Default for AppConfig
AppConfig_default ==
    [jira_url |-> <<>>, email |-> <<>>, api_token |-> <<>>,
     download_dir |-> <<"d">>, api_token_enc |-> <<>>]

\* config.json: missing, not a configuration record, or a record
ConfigAbsent == [kind |-> "absent"]
ConfigGarbage == [kind |-> "garbage"]
ConfigJson(fields) == [kind |-> "json", fields |-> fields]

\* get_or_create_key: the key of the registry, or an error
RegistryKeys == {"k1"}
KeyOutcomes == {Ok(k) : k \in RegistryKeys} \cup {Err("Registry open error")}

\* encrypt_token: base64(nonce ++ ciphertext) under the registry's key
encrypt_token(token, key, nonce) ==
    IF ~key.ok THEN key ELSE Ok(Sealed(token, key.val, nonce))

\* decrypt_token
decrypt_token(encoded, key) ==
    IF key.ok /\ encoded # <<>> /\ encoded.key = key.val
    THEN Some(encoded.sealed) ELSE None

\* Serialize for AppConfig with the plaintext token as one more field
serialize_with_token(c) ==
    [jira_url |-> c.jira_url, email |-> c.email, api_token |-> c.api_token,
     download_dir |-> c.download_dir, api_token_enc |-> c.api_token_enc]

\* Serialize for AppConfig: api_token is #[serde(skip)]
serialize_config(c) ==
    [jira_url |-> c.jira_url, email |-> c.email,
     download_dir |-> c.download_dir, api_token_enc |-> c.api_token_enc]

\* Deserialize for AppConfig: api_token is skipped and takes its default
deserialize_config(fields) ==
    [jira_url |-> fields.jira_url, email |-> fields.email, api_token |-> <<>>,
     download_dir |-> fields.download_dir,
     api_token_enc |-> fields.api_token_enc]

\* AppConfig::load
AppConfig_load(file, key) ==
    LET parsed == IF file.kind = "json" THEN deserialize_config(file.fields)
                  ELSE AppConfig_default
        token == decrypt_token(parsed.api_token_enc, key) IN
    IF parsed.api_token_enc # <<>> /\ token.some
    THEN [parsed EXCEPT !.api_token = token.val]
    ELSE parsed

\* the outcomes of create_dir_all and std::fs::write in AppConfig::save; a
\* write that fails may have truncated the file
ConfigIo == {"ok", "mkdir_err", "write_err", "write_cut"}

\* AppConfig::save: the result and the file it leaves
AppConfig_save(c, file, key, nonce, io) ==
    LET enc == IF c.api_token # <<>> THEN encrypt_token(c.api_token, key, nonce)
               ELSE Ok(<<>>) IN
    IF ~enc.ok THEN [result |-> enc, file |-> file]
    ELSE IF io = "mkdir_err"
    THEN [result |-> Err("Failed to create config dir"), file |-> file]
    ELSE IF io = "write_err"
    THEN [result |-> Err("Failed to write config"), file |-> file]
    ELSE IF io = "write_cut"
    THEN [result |-> Err("Failed to write config"), file |-> ConfigGarbage]
    ELSE [result |-> Ok("saved"),
          file |-> ConfigJson(serialize_config(
                       [c EXCEPT !.api_token_enc = enc.val]))]

(***************************************************************************)
(* Tracker client (jira.rs). A response is a transport error or an HTTP    *)
(* answer with its status, content type and body; server[ver] is the       *)
(* answer of API version ver.                                              *)
(***************************************************************************)
TransportErr == [kind |-> "transport"]
Http(status, content_type, body, st) ==
    [kind |-> "http", status |-> status, content_type |-> content_type,
     body |-> body, issue_status |-> st]

ContentTypes == {"application/json", "text/html"}
\* a body is the JSON document the endpoint is to answer, a JSON document
\* without its fields, text that is no JSON, or an HTML page
Bodies == {"json", "{}", "garbage", "<html>"}

is_success(status) == status >= 200 /\ status < 300

\* a check that looks at the content type alone
check_html_content_type(resp) ==
    IF resp.content_type = "text/html"
    THEN Some("Got an HTML page instead of JSON")
    ELSE None

\* JiraClient::check_html_response: by content type or by body prefix
check_html_response(resp) ==
    IF resp.content_type = "text/html" \/ resp.body \in {"<html>", "<!doctype>"}
    THEN Some("Got an HTML page instead of JSON")
    ELSE None

\* serde_json::from_str::<JiraIssueResponse>
parses(resp) == resp.body = "json"

\* a round that moves to the next version on every failing status
issue_round_any_status(resp, api_ver) ==
    IF resp.kind = "transport" THEN Err("Request failed")
    ELSE IF check_html_response(resp).some THEN Err(check_html_response(resp).val)
    ELSE IF ~is_success(resp.status) /\ api_ver = "3" THEN Ok("continue")
    ELSE IF ~is_success(resp.status) THEN Err("HTTP status")
    ELSE IF ~parses(resp) THEN Err("Failed to parse response")
    ELSE Ok("parsed")

\* a round that treats a 404 of version 3 as any other failing status
issue_round_no_fallback(resp, api_ver) ==
    IF resp.kind = "transport" THEN Err("Request failed")
    ELSE IF check_html_response(resp).some THEN Err(check_html_response(resp).val)
    ELSE IF ~is_success(resp.status) THEN Err("HTTP status")
    ELSE IF ~parses(resp) THEN Err("Failed to parse response")
    ELSE Ok("parsed")

\* one round of the version loop shared by fetch_issue and
\* fetch_issue_status: "continue" moves to the next version
issue_round(resp, api_ver) ==
    IF resp.kind = "transport" THEN Err("Request failed")
    ELSE IF check_html_response(resp).some THEN Err(check_html_response(resp).val)
    ELSE IF resp.status = 404 /\ api_ver = "3" THEN Ok("continue")
    ELSE IF ~is_success(resp.status) THEN Err("HTTP status")
    ELSE IF ~parses(resp) THEN Err("Failed to parse response")
    ELSE Ok("parsed")

ApiVersions == <<"3", "2">>

\* the version loop: the requests made and the round that ended it
RECURSIVE version_loop(_, _, _)
version_loop(server, i, requests) ==
    IF i > Len(ApiVersions)
    THEN [requests |-> requests, last |-> Err("not found"), resp |-> TransportErr]
    ELSE LET ver == ApiVersions[i]
             r == issue_round(server[ver], ver)
         IN  IF r.ok /\ r.val = "continue"
             THEN version_loop(server, i + 1, Append(requests, ver))
             ELSE [requests |-> Append(requests, ver), last |-> r,
                   resp |-> server[ver]]

\* JiraClient::fetch_issue
fetch_issue(key, server) ==
    LET run == version_loop(server, 1, <<>>) IN
    [requests |-> run.requests,
     result |-> IF run.last.ok
                THEN Ok([key |-> key, summary |-> RemoteSummary(key),
                         status |-> run.resp.issue_status,
                         attachments |-> RemoteAttachments(key)])
                ELSE run.last]

\* JiraClient::fetch_issue_status
fetch_issue_status(key, server) ==
    LET run == version_loop(server, 1, <<>>) IN
    [requests |-> run.requests,
     result |-> IF run.last.ok THEN Ok(run.resp.issue_status) ELSE run.last]

\* serde_json::from_str::<serde_json::Value>: any JSON document
parses_value(resp) == resp.body \in {"json", "{}"}

\* parsed["displayName"].as_str().unwrap_or("unknown")
display_name(resp) == IF resp.body = "json" THEN "ann" ELSE "unknown"

\* a round that ends the call on a failing status
myself_round_abort(resp, api_ver) ==
    IF resp.kind = "transport" THEN Err("Request failed")
    ELSE IF check_html_response(resp).some THEN Err(check_html_response(resp).val)
    ELSE IF ~is_success(resp.status) THEN Err("HTTP status")
    ELSE IF ~parses_value(resp) THEN Err("Parse error")
    ELSE Ok("parsed")

\* one round of test_connection's loop: a failing status falls through to
\* the next version
myself_round(resp, api_ver) ==
    IF resp.kind = "transport" THEN Err("Request failed")
    ELSE IF check_html_response(resp).some THEN Err(check_html_response(resp).val)
    ELSE IF ~is_success(resp.status) THEN Ok("continue")
    ELSE IF ~parses_value(resp) THEN Err("Parse error")
    ELSE Ok("parsed")

RECURSIVE connection_loop(_, _, _)
connection_loop(server, i, requests) ==
    IF i > Len(ApiVersions)
    THEN [requests |-> requests, result |-> Err("Authentication failed")]
    ELSE LET ver == ApiVersions[i]
             r == myself_round(server[ver], ver)
         IN  IF r.ok /\ r.val = "continue"
             THEN connection_loop(server, i + 1, Append(requests, ver))
             ELSE [requests |-> Append(requests, ver),
                   result |-> IF r.ok
                              THEN Ok([name |-> display_name(server[ver]),
                                       api_ver |-> ver])
                              ELSE r]

\* JiraClient::test_connection
test_connection(server) == connection_loop(server, 1, <<>>)

\* the search endpoints, newest first, and the API version each belongs to
SearchEndpoints == <<"rest/api/3/search/jql", "rest/api/2/search">>
endpoint_version(endpoint) ==
    IF endpoint = "rest/api/3/search/jql" THEN "3" ELSE "2"

\* serde_json::from_str::<SearchResponse>: the issues field is required
parses_search(resp) == resp.body = "json"

\* IssueSummary of each SearchIssue, in the order of the response
issue_summaries(issues) ==
    [i \in 1..Len(issues) |->
        [key |-> issues[i].key, summary |-> issues[i].fields.summary,
         status |-> issues[i].fields.status.name]]

\* a round that falls back on 404 alone
search_round_404_only(resp, endpoint) ==
    IF resp.kind = "transport" THEN Err("Request failed")
    ELSE IF check_html_response(resp).some THEN Err(check_html_response(resp).val)
    ELSE IF resp.status = 404 /\ endpoint = "rest/api/3/search/jql"
    THEN Ok("continue")
    ELSE IF ~is_success(resp.status) THEN Err("HTTP status")
    ELSE IF ~parses_search(resp) THEN Err("Failed to parse search response")
    ELSE Ok("parsed")

\* one round of fetch_my_issues' loop
search_round(resp, endpoint) ==
    IF resp.kind = "transport" THEN Err("Request failed")
    ELSE IF check_html_response(resp).some THEN Err(check_html_response(resp).val)
    ELSE IF resp.status \in {404, 410} /\ endpoint = "rest/api/3/search/jql"
    THEN Ok("continue")
    ELSE IF ~is_success(resp.status) THEN Err("HTTP status")
    ELSE IF ~parses_search(resp) THEN Err("Failed to parse search response")
    ELSE Ok("parsed")

RECURSIVE search_loop(_, _, _)
search_loop(server, i, requests) ==
    IF i > Len(SearchEndpoints)
    THEN [requests |-> requests, result |-> Ok(<<>>)]
    ELSE LET endpoint == SearchEndpoints[i]
             resp == server[endpoint_version(endpoint)]
             r == search_round(resp, endpoint)
         IN  IF r.ok /\ r.val = "continue"
             THEN search_loop(server, i + 1, Append(requests, endpoint))
             ELSE [requests |-> Append(requests, endpoint),
                   result |-> IF r.ok THEN Ok(issue_summaries(resp.issues))
                              ELSE r]

\* JiraClient::fetch_my_issues
fetch_my_issues(server) == search_loop(server, 1, <<>>)


(***************************************************************************)
(* Download items and their state cells (downloader.rs).                   *)
(***************************************************************************)
Pending == [tag |-> "Pending"]
Downloading(downloaded, total) ==
    [tag |-> "Downloading", downloaded |-> downloaded, total |-> total]
Done == [tag |-> "Done"]
AlreadyOnDisk == [tag |-> "AlreadyOnDisk"]
Error(e) == [tag |-> "Error", msg |-> e]

\* a as f32 / b as f32: the quotient is kept as its two operands; a zero
\* divisor yields NaN or an infinity
f32_div(a, b) == [num |-> a, den |-> b]
f32_one == [num |-> 1, den |-> 1]

\* format!("{pct}") of (q * 100.0) as u32: the cast truncates, takes NaN
\* to 0 and an infinity to u32::MAX
percent_digits(q) ==
    IF q.den = 0
    THEN (IF q.num = 0 THEN <<"0">>
          ELSE <<"4", "2", "9", "4", "9", "6", "7", "2", "9", "5">>)
    ELSE fmt_num((q.num * 100) \div q.den)

\* a fraction computed for every Downloading state
progress_fraction_unguarded(state) ==
    IF state.tag = "Downloading"
    THEN Some(f32_div(state.downloaded, state.total))
    ELSE IF state.tag \in {"Done", "AlreadyOnDisk"} THEN Some(f32_one)
    ELSE None

\* FileState::progress_fraction
progress_fraction(state) ==
    IF state.tag = "Downloading" /\ state.total > 0
    THEN Some(f32_div(state.downloaded, state.total))
    ELSE IF state.tag \in {"Done", "AlreadyOnDisk"} THEN Some(f32_one)
    ELSE None

\* a label is format!("{digits}{text}{arg}")
Label(digits, text, arg) == [digits |-> digits, text |-> text, arg |-> arg]

\* FileState::label
label(state) ==
    IF state.tag = "Pending" THEN Label(<<>>, "Pending", "")
    ELSE IF state.tag = "Downloading"
    THEN IF state.total > 0
         THEN Label(percent_digits(f32_div(state.downloaded, state.total)),
                    "%", "")
         ELSE Label(fmt_num(state.downloaded), " B", "")
    ELSE IF state.tag = "Done" THEN Label(<<>>, "Done", "")
    ELSE IF state.tag = "AlreadyOnDisk" THEN Label(<<>>, "On disk", "")
    ELSE Label(<<>>, "Error: ", state.msg)

\* cells numbered from 1 whatever cells are held
fresh_cells_from_1(used, n) == [i \in 1..n |-> i]

\* the n smallest cell ids outside used: Arc::new(Mutex::new(..)) n times
RECURSIVE fresh_cells(_, _)
fresh_cells(used, n) ==
    IF n = 0 THEN <<>>
    ELSE LET c == CHOOSE x \in 1..(Cardinality(used) + 1) :
                     x \notin used /\ \A y \in 1..(x - 1) : y \in used
         IN  <<c>> \o fresh_cells(used \cup {c}, n - 1)

\* the cells some item or some running unit still holds (Arc's count > 0)
live_cells(items, us) ==
    {items[i].state : i \in 1..Len(items)} \cup {us[u].cell : u \in 1..Len(us)}

\* DownloadItem::new, then render_incident's on_disk adjustment
new_item(att, cell, on_disk) ==
    [attachment |-> att, state |-> cell, selected |-> ~on_disk]
\* an item that starts Pending whether or not its file is on disk
new_state_pending(on_disk) == Pending
new_state(on_disk) == IF on_disk THEN AlreadyOnDisk ELSE Pending

\* a start_all_downloads that never downloads again what has been downloaded
start_eligible_no_done(state) == state.tag \in {"Pending", "Error"}

\* a start_all_downloads that downloads again what is on disk
start_eligible_on_disk(state) ==
    state.tag \in {"Pending", "Error", "Done", "AlreadyOnDisk"}

\* the states start_all_downloads starts a download from
start_eligible(state) == state.tag \in {"Pending", "Error", "Done"}

\* DownloadManager::start_download: a task is handed to the runtime; it owns
\* clones of the attachment, the state cell and the issue key, and has not
\* run yet. id is the task's id on the runtime.
start_download(st, item, issue_key) ==
    [st EXCEPT
       !.units = Append(@, [id |-> st.spawned + 1, pc |-> "spawned",
                            cell |-> item.state, attachment |-> item.attachment,
                            issue_key |-> issue_key, downloaded |-> 0,
                            total |-> 0, path |-> <<>>,
                            started_from |-> st.cells[item.state].tag]),
       !.spawned = @ + 1]

(***************************************************************************)
(* The application state as one record, so that a frame's handlers can be  *)
(* applied one after the other as the code does (app.rs).                  *)
(***************************************************************************)
Cur ==
    [tab |-> tab, fetch_status |-> fetch_status, current_issue |-> current_issue,
     download_items |-> download_items, cells |-> cells, units |-> units,
     fetches |-> fetches, disk |-> disk, incidents |-> incidents,
     check_status |-> check_status, checks |-> checks,
     delete_confirm |-> delete_confirm, spawned |-> spawned,
     my_issues |-> my_issues, my_issues_loading |-> my_issues_loading,
     my_issues_error |-> my_issues_error,
     my_issues_status |-> my_issues_status, loads |-> loads]

\* DownloadManager::start_all_downloads, from item i on
RECURSIVE start_all_from(_, _, _)
start_all_from(st, issue_key, i) ==
    IF i > Len(st.download_items) THEN st
    ELSE LET item == st.download_items[i] IN
         IF item.selected /\ start_eligible(st.cells[item.state])
         THEN start_all_from(start_download(st, item, issue_key), issue_key, i + 1)
         ELSE start_all_from(st, issue_key, i + 1)

start_all_downloads(st, issue_key) == start_all_from(st, issue_key, 1)

\* App::do_fetch
do_fetch(st, raw) ==
    LET key == parse_issue_key(trim(raw)) IN
    IF ~key.some
    THEN [st EXCEPT !.fetch_status = Some(Err("Invalid issue key or URL"))]
    ELSE [st EXCEPT !.current_issue = None,
                    !.download_items = <<>>,
                    !.fetch_status = None,
                    !.fetches[key.val] = @ + 1,
                    !.spawned = @ + 1]

\* render_incident, "Process fetch result": a fetched issue is written to
\* its control file and its attachments become the download items
process_fetch_result(st, io) ==
    IF st.fetch_status.some /\ st.fetch_status.val.ok
    THEN LET issue == st.fetch_status.val.val
             ctrl == ControlFile_new(issue.key, issue.summary, issue.status)
             saved == save_control_file(st.disk, ctrl, io)
             n == Len(issue.attachments)
             ids == fresh_cells(DOMAIN st.cells, n)
             on_disk(i) == attachment_exists(saved.disk, issue.key,
                                             issue.attachments[i])
         IN  [st EXCEPT
                !.disk = saved.disk,
                !.download_items =
                    [i \in 1..n |-> new_item(issue.attachments[i], ids[i], on_disk(i))],
                !.cells = [c \in (DOMAIN @) \cup {ids[i] : i \in 1..n} |->
                             IF c \in DOMAIN @ THEN @[c]
                             ELSE new_state(on_disk(CHOOSE i \in 1..n : ids[i] = c))],
                !.current_issue = Some(issue),
                !.fetch_status = None]
    ELSE st

set_selected(st, value) ==
    [st EXCEPT !.download_items =
        [i \in 1..Len(@) |-> [@[i] EXCEPT !.selected = value]]]

\* render_incident, the key field and the Fetch button
fetch_row(st, c, arg) == IF c = "fetch" THEN do_fetch(st, arg) ELSE st

\* render_incident, the attachment rows and the buttons below them, drawn
\* when an issue is shown
attachment_rows(st, c, arg) ==
    IF ~st.current_issue.some THEN st
    ELSE IF c = "toggle"
    THEN [st EXCEPT !.download_items[arg].selected = ~@]
    ELSE IF c = "select_all" THEN set_selected(st, TRUE)
    ELSE IF c = "deselect_all" THEN set_selected(st, FALSE)
    ELSE IF c = "download_all"
    THEN start_all_downloads(set_selected(st, TRUE), st.current_issue.val.key)
    ELSE IF c = "download_selected"
    THEN start_all_downloads(st, st.current_issue.val.key)
    ELSE st

\* App::load_my_issues: a task is spawned unless a load is marked running
load_my_issues(st) ==
    IF st.my_issues_loading THEN st
    ELSE [st EXCEPT !.my_issues_loading = TRUE,
                    !.my_issues_status = None,
                    !.loads = @ + 1,
                    !.spawned = @ + 1]

\* render_incident, the automatic load of the user's open cases
auto_load(st) ==
    IF /\ ~st.my_issues_loading
       /\ st.my_issues = <<>>
       /\ ~st.my_issues_error.some
       /\ config.jira_url # <<>>
       /\ config.email # <<>>
    THEN load_my_issues(st) ELSE st

\* render_incident, "Process incoming my-issues result"
take_my_result(st) ==
    IF ~st.my_issues_status.some THEN st
    ELSE IF st.my_issues_status.val.ok
    THEN [st EXCEPT !.my_issues_status = None,
                    !.my_issues = st.my_issues_status.val.val,
                    !.my_issues_loading = FALSE,
                    !.my_issues_error = None]
    ELSE [st EXCEPT !.my_issues_status = None,
                    !.my_issues_loading = FALSE,
                    !.my_issues_error = Some(st.my_issues_status.val.err)]

\* what the "My Open Cases" panel draws
panel_branch(st) ==
    IF st.my_issues_loading /\ st.my_issues = <<>> THEN "loading"
    ELSE IF st.my_issues_error.some THEN "error"
    ELSE IF st.my_issues = <<>> THEN "empty"
    ELSE "list"

\* render_incident, the panel's buttons: Retry, Refresh, and the key of a
\* listed case, which is fetched as if typed
my_cases_panel(st, c, arg) ==
    IF panel_branch(st) = "error" /\ c = "retry"
    THEN load_my_issues([st EXCEPT !.my_issues_error = None,
                                   !.my_issues_loading = FALSE])
    ELSE IF panel_branch(st) = "list" /\ c = "refresh"
    THEN load_my_issues([st EXCEPT !.my_issues_loading = FALSE])
    ELSE IF panel_branch(st) = "list" /\ c = "case"
    THEN do_fetch(st, arg)
    ELSE st

\* render_incident for one frame: c is the widget clicked, arg its input
render_incident(st, c, arg, env) ==
    attachment_rows(
        process_fetch_result(
            my_cases_panel(fetch_row(take_my_result(auto_load(st)), c, arg),
                           c, arg),
            env.save),
        c, arg)

\* App::check_single_status
check_single_status(st, key) ==
    [st EXCEPT !.checks[key] = @ + 1, !.spawned = @ + 1]

\* App::check_all_statuses
RECURSIVE check_all_statuses(_, _)
check_all_statuses(st, i) ==
    IF i > Len(st.incidents) THEN st
    ELSE check_all_statuses(
            check_single_status(st, st.incidents[i].control.issue_key), i + 1)

\* the incidents "Delete" is offered for, and delete_all_marked's filter
deletable(incident) ==
    incident.control.marked_for_deletion \/ is_closed(incident.control)

\* App::delete_all_marked: dio[key] is the outcome of that key's removal
RECURSIVE delete_folders(_, _, _)
delete_folders(d, keys, dio) ==
    IF keys = <<>> THEN d
    ELSE delete_folders(delete_folder(d, Head(keys), dio[Head(keys)]).disk,
                        Tail(keys), dio)
delete_all_marked(st, dio) ==
    LET marked == SelectSeq(st.incidents, deletable)
        keys == [i \in 1..Len(marked) |-> marked[i].control.issue_key]
    IN  [st EXCEPT
           !.disk = delete_folders(@, keys, dio),
           !.incidents = SelectSeq(@, LAMBDA inc :
                            \A i \in 1..Len(keys) : keys[i] # inc.control.issue_key)]

\* apply_updates with a failed check recorded as an empty status
RECURSIVE apply_updates_records_errors(_, _, _, _)
apply_updates_records_errors(st, updates, ios, n) ==
    IF n > Len(updates) THEN st
    ELSE LET key == updates[n][1]
             result == updates[n][2]
             found == {i \in 1..Len(st.incidents) :
                         st.incidents[i].control.issue_key = key}
         IN  IF found = {} THEN apply_updates_records_errors(st, updates, ios, n + 1)
             ELSE LET i == CHOOSE x \in found : \A y \in found : x <= y
                      c1 == [st.incidents[i].control EXCEPT
                                !.issue_status = IF result.ok THEN result.val
                                                 ELSE <<>>]
                      c2 == [c1 EXCEPT !.marked_for_deletion = is_closed(c1)]
                      saved == save_control_file(st.disk, c2, ios[n])
                  IN  apply_updates_records_errors(
                          [st EXCEPT !.incidents[i].control = c2,
                                     !.disk = saved.disk],
                          updates, ios, n + 1)

\* apply_updates writing a control file for a key that is not listed
RECURSIVE apply_updates_saves_unlisted(_, _, _, _)
apply_updates_saves_unlisted(st, updates, ios, n) ==
    IF n > Len(updates) THEN st
    ELSE LET key == updates[n][1]
             result == updates[n][2]
             found == {i \in 1..Len(st.incidents) :
                         st.incidents[i].control.issue_key = key}
         IN  IF ~result.ok THEN apply_updates_saves_unlisted(st, updates, ios, n + 1)
             ELSE IF found = {}
             THEN LET c0 == [issue_key |-> key,
                             issue_summary |-> RemoteSummary(key),
                             issue_status |-> result.val,
                             marked_for_deletion |-> FALSE]
                      c2 == [c0 EXCEPT !.marked_for_deletion = is_closed(c0)]
                  IN  apply_updates_saves_unlisted(
                          [st EXCEPT !.disk = save_control_file(@, c2, ios[n]).disk],
                          updates, ios, n + 1)
             ELSE LET i == CHOOSE x \in found : \A y \in found : x <= y
                      c1 == [st.incidents[i].control EXCEPT
                                !.issue_status = result.val]
                      c2 == [c1 EXCEPT !.marked_for_deletion = is_closed(c1)]
                      saved == save_control_file(st.disk, c2, ios[n])
                  IN  apply_updates_saves_unlisted(
                          [st EXCEPT !.incidents[i].control = c2,
                                     !.disk = saved.disk],
                          updates, ios, n + 1)

\* render_incidents_manager, step 1: the results of finished status checks
RECURSIVE apply_updates(_, _, _, _)
apply_updates(st, updates, ios, n) ==
    IF n > Len(updates) THEN st
    ELSE LET key == updates[n][1]
             result == updates[n][2]
             found == {i \in 1..Len(st.incidents) :
                         st.incidents[i].control.issue_key = key}
         IN  IF found = {} \/ ~result.ok THEN apply_updates(st, updates, ios, n + 1)
             ELSE LET i == CHOOSE x \in found : \A y \in found : x <= y
                      c1 == [st.incidents[i].control EXCEPT
                                !.issue_status = result.val]
                      c2 == [c1 EXCEPT !.marked_for_deletion = is_closed(c1)]
                      saved == save_control_file(st.disk, c2, ios[n])
                  IN  apply_updates([st EXCEPT !.incidents[i].control = c2,
                                               !.disk = saved.disk],
                                    updates, ios, n + 1)

\* render_incidents_manager, step 5: the confirmation dialog
confirm_dialog(st, c, io) ==
    IF ~st.delete_confirm.some THEN st
    ELSE IF c = "confirm"
    THEN LET key == st.delete_confirm.val
             removed == delete_folder(st.disk, key, io)
         IN  IF removed.result.ok
             THEN [st EXCEPT !.disk = removed.disk,
                             !.incidents = SelectSeq(@, LAMBDA inc :
                                              inc.control.issue_key # key),
                             !.delete_confirm = None]
             ELSE [st EXCEPT !.delete_confirm = None]
    ELSE IF c = "cancel" THEN [st EXCEPT !.delete_confirm = None]
    ELSE st

\* render_incidents_manager, step 2 and 3: the header buttons
header_buttons(st, c, dio) ==
    IF c = "scan" THEN [st EXCEPT !.incidents = scan_incidents(st.disk)]
    ELSE IF c = "check_all" THEN check_all_statuses(st, 1)
    ELSE IF c = "delete_all_marked" THEN delete_all_marked(st, dio)
    ELSE st

\* render_incidents_manager, step 4: the rows, drawn when there are incidents
incident_rows(st, c, arg) ==
    IF st.incidents = <<>> THEN st
    ELSE IF c = "check" THEN check_single_status(st, arg)
    ELSE IF c = "delete" THEN [st EXCEPT !.delete_confirm = Some(arg)]
    ELSE st

\* render_incidents_manager for one frame
render_incidents_manager(st, c, arg, env) ==
    confirm_dialog(
        incident_rows(
            header_buttons(
                apply_updates([st EXCEPT !.check_status = <<>>],
                              st.check_status, env.saves, 1),
                c, env.deletes),
            c, arg),
        c, env.remove)

\* eframe::App::update: the frame of the tab shown
update(st, c, arg, env) ==
    IF st.tab = "Incident" THEN render_incident(st, c, arg, env)
    ELSE render_incidents_manager(st, c, arg, env)


(***************************************************************************)
(* The environment of one frame: the outcomes of its file-system calls.    *)
(*   save     save_control_file of a processed fetch result                *)
(*   saves[n] save_control_file of the n-th processed status update        *)
(*   deletes  delete_folder per key in delete_all_marked                   *)
(*   remove   delete_folder of the confirmed deletion                      *)
(***************************************************************************)
Envs(st, c) ==
    {[save |-> a, saves |-> b, deletes |-> d, remove |-> r] :
        a \in (IF /\ st.tab = "Incident"
                  /\ c # "fetch"
                  /\ st.fetch_status.some
                  /\ st.fetch_status.val.ok
               THEN SaveOutcomes ELSE {"ok"}),
        b \in (IF st.tab = "IncidentsManager"
               THEN [1..Len(st.check_status) -> SaveOutcomes]
               ELSE {<<>>}),
        d \in (IF c = "delete_all_marked" THEN [Keys -> DeleteOutcomes]
               ELSE {[k \in Keys |-> "ok"]}),
        r \in (IF c = "confirm" THEN DeleteOutcomes ELSE {"ok"})}

\* the tabs whose frames touch the state above; the Settings tab edits the
\* configuration only
Tabs == {"Incident", "IncidentsManager"}

\* the bound of the model holds in st
within_bounds(st) == st.spawned <= limit

(***************************************************************************)
(* Initial state: App::new with a configured tracker URL and an empty      *)
(* download directory.                                                     *)
(***************************************************************************)
DefaultServer == [v \in {"3", "2"} |-> TransportErr]

\* the panel before its first load: nothing listed, no task
MyIssuesIdle ==
    /\ my_issues = <<>>
    /\ my_issues_loading = FALSE
    /\ my_issues_error = None
    /\ my_issues_status = None
    /\ loads = 0

InitApp ==
    /\ tab = "Incident"
    /\ fetch_status = None
    /\ current_issue = None
    /\ download_items = <<>>
    /\ cells = [c \in {} |-> Pending]
    /\ units = <<>>
    /\ fetches = [k \in Keys |-> 0]
    /\ disk = [k \in Keys |-> NoDir]
    /\ incidents = <<>>
    /\ check_status = <<>>
    /\ checks = [k \in Keys |-> 0]
    /\ delete_confirm = None
    /\ spawned = 0
    /\ MyIssuesIdle

Init ==
    /\ InitApp
    /\ limit = MaxAppTasks
    /\ srv = DefaultServer
    /\ out = None
    /\ config = AppConfig_default
    /\ config_file = ConfigAbsent

(***************************************************************************)
(* Frames: one action per user input. A widget can be clicked when the     *)
(* last frame drew it and this frame draws it again.                       *)
(***************************************************************************)
Commit(s) ==
    /\ within_bounds(s)
    /\ tab' = s.tab
    /\ fetch_status' = s.fetch_status
    /\ current_issue' = s.current_issue
    /\ download_items' = s.download_items
    /\ cells' = [x \in live_cells(s.download_items, s.units) |-> s.cells[x]]
    /\ units' = s.units
    /\ fetches' = s.fetches
    /\ disk' = s.disk
    /\ incidents' = s.incidents
    /\ check_status' = s.check_status
    /\ checks' = s.checks
    /\ delete_confirm' = s.delete_confirm
    /\ spawned' = s.spawned
    /\ my_issues' = s.my_issues
    /\ my_issues_loading' = s.my_issues_loading
    /\ my_issues_error' = s.my_issues_error
    /\ my_issues_status' = s.my_issues_status
    /\ loads' = s.loads
    /\ UNCHANGED <<limit, config, config_file, srv, out>>

Frame(st, c, arg) ==
    \E env \in Envs(st, c) : Commit(update(st, c, arg, env))

\* a frame without input (request_repaint)
Repaint == Frame(Cur, "none", 0)

SwitchTab ==
    \E t \in Tabs \ {tab} : Frame([Cur EXCEPT !.tab = t], "tab", 0)

\* the Fetch button with one of the texts in inputs in the key field
FetchOf(inputs) ==
    /\ tab = "Incident"
    /\ \E raw \in inputs : Frame(Cur, "fetch", raw)

ClickFetch == FetchOf(Inputs)

\* the attachment rows and the four buttons below them
ItemsShown == tab = "Incident" /\ current_issue.some

ClickToggle ==
    /\ ItemsShown
    /\ \E i \in 1..Len(download_items) :
          /\ \A env \in Envs(Cur, "toggle") :
                i <= Len(process_fetch_result(Cur, env.save).download_items)
          /\ Frame(Cur, "toggle", i)

ClickSelectAll == ItemsShown /\ Frame(Cur, "select_all", 0)

ClickDeselectAll == ItemsShown /\ Frame(Cur, "deselect_all", 0)

ClickDownloadSelected == ItemsShown /\ Frame(Cur, "download_selected", 0)

ClickDownloadAll == ItemsShown /\ Frame(Cur, "download_all", 0)

ManagerShown == tab = "IncidentsManager"

ClickScan == ManagerShown /\ Frame(Cur, "scan", 0)

ClickCheckAll == ManagerShown /\ Frame(Cur, "check_all", 0)

ClickDeleteAllMarked == ManagerShown /\ Frame(Cur, "delete_all_marked", 0)

IncidentKeys(incs) == {incs[i].control.issue_key : i \in 1..Len(incs)}

ClickCheck ==
    /\ ManagerShown
    /\ \E key \in IncidentKeys(incidents) : Frame(Cur, "check", key)

\* "Delete" is drawn for a row that is closed or marked, both in the last
\* frame and, after the status updates of this frame, in this one
ClickDelete ==
    /\ ManagerShown
    /\ \E i \in 1..Len(incidents) :
          /\ deletable(incidents[i])
          /\ \A env \in Envs(Cur, "delete") :
                deletable(apply_updates(Cur, check_status, env.saves, 1).incidents[i])
          /\ Frame(Cur, "delete", incidents[i].control.issue_key)

DialogShown == ManagerShown /\ delete_confirm.some

ClickConfirm == DialogShown /\ Frame(Cur, "confirm", 0)

ClickCancel == DialogShown /\ Frame(Cur, "cancel", 0)

(***************************************************************************)
(* Background tasks on the runtime.                                        *)
(***************************************************************************)
\* the tracker as the application runs meet it: v3 answers, or v3 is
\* missing and v2 answers, or the tracker cannot be reached
AppServers ==
    {[v \in {"3", "2"} |-> Http(200, "application/json", "json", st)] :
        st \in Statuses}
    \cup {[v \in {"3", "2"} |->
              IF v = "3" THEN Http(404, "application/json", "garbage", st)
              ELSE Http(200, "application/json", "json", st)] : st \in Statuses}
    \cup {[v \in {"3", "2"} |-> TransportErr]}

\* the task of do_fetch ends: it stores its result
FetchDone ==
    \E key \in Keys, server \in AppServers :
        /\ fetches[key] > 0
        /\ fetches' = [fetches EXCEPT ![key] = @ - 1]
        /\ fetch_status' = Some(fetch_issue(key, server).result)
        /\ UNCHANGED <<tab, current_issue, download_items, cells, units,
                       disk, incidents, check_status, checks, delete_confirm,
                       spawned, myVars, limit, config, config_file, srv, out>>

\* a task of check_single_status that writes the control file itself
CheckDoneSaving ==
    \E key \in Keys, server \in AppServers :
        LET result == fetch_issue_status(key, server).result IN
        /\ checks[key] > 0
        /\ checks' = [checks EXCEPT ![key] = @ - 1]
        /\ check_status' = Append(check_status, <<key, result>>)
        /\ disk' = IF result.ok
                   THEN save_control_file(
                            disk, ControlFile_new(key, RemoteSummary(key), result.val),
                            "ok").disk
                   ELSE disk
        /\ UNCHANGED <<tab, fetch_status, current_issue, download_items,
                       cells, units, fetches, incidents, delete_confirm,
                       spawned, myVars, limit, config, config_file, srv, out>>

\* the task of check_single_status ends: it queues its result
CheckDone ==
    \E key \in Keys, server \in AppServers :
        /\ checks[key] > 0
        /\ checks' = [checks EXCEPT ![key] = @ - 1]
        /\ check_status' =
              Append(check_status, <<key, fetch_issue_status(key, server).result>>)
        /\ UNCHANGED <<tab, fetch_status, current_issue, download_items,
                       cells, units, fetches, disk, incidents, delete_confirm,
                       spawned, myVars, limit, config, config_file, srv, out>>

\* what the attachment's content URL may answer
DownloadResponses(att) ==
    {[kind |-> "transport"],
     [kind |-> "http", status |-> 404, content_length |-> None],
     [kind |-> "http", status |-> 200, content_length |-> None],
     [kind |-> "http", status |-> 200, content_length |-> Some(att.size)]}

remove_at(seq, i) == SubSeq(seq, 1, i - 1) \o SubSeq(seq, i + 1, Len(seq))

unitFrame == <<tab, fetch_status, current_issue, download_items, fetches,
               incidents, check_status, checks, delete_confirm, spawned,
               myVars, limit, config, config_file, srv, out>>

\* a task that ends without writing its last state
finish_silently(i, final) ==
    /\ units' = remove_at(units, i)
    /\ cells' = [x \in live_cells(download_items, remove_at(units, i)) |-> cells[x]]

\* the task writes its last state and ends, dropping its clone of the cell
finish(i, final) ==
    /\ units' = remove_at(units, i)
    /\ cells' = [x \in live_cells(download_items, remove_at(units, i)) |->
                    IF x = units[i].cell THEN final ELSE cells[x]]

\* start_download's task, first statement: Downloading {0, attachment.size}
UnitBegin(i) ==
    /\ units[i].pc = "spawned"
    /\ cells' = [cells EXCEPT ![units[i].cell] =
                    Downloading(0, units[i].attachment.size)]
    /\ units' = [units EXCEPT ![i].pc = "request"]
    /\ UNCHANGED disk
    /\ UNCHANGED unitFrame

\* download_attachment: the response to the GET
UnitResponse(i) ==
    /\ units[i].pc = "request"
    /\ \E resp \in DownloadResponses(units[i].attachment) :
          IF resp.kind = "transport" THEN finish(i, Error("Request failed"))
          ELSE IF ~is_success(resp.status) THEN finish(i, Error("HTTP status"))
          ELSE /\ units' = [units EXCEPT
                              ![i].pc = "stream",
                              ![i].total = IF resp.content_length.some
                                           THEN resp.content_length.val ELSE 0]
               /\ UNCHANGED cells
    /\ UNCHANGED disk
    /\ UNCHANGED unitFrame

\* download_attachment: one chunk of the body, then on_progress; the body
\* arrives in chunks of one byte and the stream ends after the last of them
UnitChunk(i) ==
    /\ units[i].pc = "stream"
    /\ units[i].downloaded < units[i].attachment.size
    /\ units' = [units EXCEPT ![i].downloaded = @ + 1]
    /\ cells' = [cells EXCEPT ![units[i].cell] =
                    Downloading(units[i].downloaded + 1, units[i].total)]
    /\ UNCHANGED disk
    /\ UNCHANGED unitFrame

\* a stream error that is taken for the end of the download
UnitStreamErrorDone(i) ==
    /\ units[i].pc = "stream"
    /\ finish(i, Done)
    /\ UNCHANGED disk
    /\ UNCHANGED unitFrame

\* download_attachment: the stream yields an error
UnitStreamError(i) ==
    /\ units[i].pc = "stream"
    /\ finish(i, Error("Stream error"))
    /\ UNCHANGED disk
    /\ UNCHANGED unitFrame

\* the stream ends; save_attachment creates the date directory and
\* resolve_conflict picks the target path
UnitStreamEnd(i) ==
    /\ units[i].pc = "stream"
    /\ units[i].downloaded = units[i].attachment.size
    /\ LET key == units[i].issue_key
           date == format_date(units[i].attachment.created)
           made == create_date_dir(disk, key, date)
       IN  \/ /\ finish(i, Error("Failed to create date dir"))
              /\ UNCHANGED disk
           \/ /\ disk' = made
              /\ units' = [units EXCEPT
                             ![i].pc = "write",
                             ![i].path = resolve_conflict(
                                 made, key, date, units[i].attachment.filename)]
              /\ UNCHANGED cells
    /\ UNCHANGED unitFrame

\* what std::fs::write leaves in the file when it fails after it has
\* created or truncated it
Truncated == ""

\* save_attachment's std::fs::write, then Done, or Error when it fails:
\* the write fails before it opens the file, or after it has created or
\* truncated it
UnitWrite(i) ==
    /\ units[i].pc = "write"
    /\ LET key == units[i].issue_key
           date == format_date(units[i].attachment.created)
       IN  \/ /\ can_write(disk, key, date)
              /\ disk' = write_file(disk, key, date, units[i].path,
                                    units[i].attachment.id)
              /\ finish(i, Done)
           \/ /\ finish(i, Error("Failed to write file"))
              /\ UNCHANGED disk
           \/ /\ can_write(disk, key, date)
              /\ disk' = write_file(disk, key, date, units[i].path, Truncated)
              /\ finish(i, Error("Failed to write file"))
    /\ UNCHANGED unitFrame

\* the ids the runtime gives to the tasks of one run
MaxRunTasks == MaxTasks + 1
TaskIds == 1..MaxRunTasks

\* the runtime polls the download task with this id: it runs to its next await
UnitRun(id) ==
    \E i \in 1..Len(units) :
        /\ units[i].id = id
        /\ \/ UnitBegin(i)
           \/ UnitResponse(i)
           \/ UnitChunk(i)
           \/ UnitStreamError(i)
           \/ UnitStreamEnd(i)
           \/ UnitWrite(i)

UnitStep == \E id \in TaskIds : UnitRun(id)

Next ==
    \/ Repaint
    \/ SwitchTab
    \/ ClickFetch
    \/ ClickToggle
    \/ ClickSelectAll
    \/ ClickDeselectAll
    \/ ClickDownloadSelected
    \/ ClickDownloadAll
    \/ ClickScan
    \/ ClickCheckAll
    \/ ClickDeleteAllMarked
    \/ ClickCheck
    \/ ClickDelete
    \/ ClickConfirm
    \/ ClickCancel
    \/ FetchDone
    \/ CheckDone
    \/ UnitStep

Spec == Init /\ [][Next]_vars

\* the Incident tab alone, on one issue: fetching, selecting and downloading
ClickFetchA == FetchOf({raw \in Inputs : parse_issue_key(trim(raw)) # Some(KeyB)})

NextDownload ==
    \/ Repaint
    \/ ClickFetchA
    \/ ClickToggle
    \/ ClickSelectAll
    \/ ClickDeselectAll
    \/ ClickDownloadSelected
    \/ ClickDownloadAll
    \/ FetchDone
    \/ UnitStep

InitDownload ==
    /\ InitApp
    /\ limit = MaxTasks
    /\ srv = DefaultServer
    /\ out = None
    /\ config = AppConfig_default
    /\ config_file = ConfigAbsent

SpecDownload == InitDownload /\ [][NextDownload]_vars

\* the runtime polls every task it holds; the request and the body stream of
\* a download yield a response, a chunk, the end of the stream or an error
Fairness == \A id \in TaskIds : WF_vars(UnitRun(id))

LiveDownload == SpecDownload /\ Fairness

(***************************************************************************)
(* Download units and the state of an item.                                *)
(***************************************************************************)
\* the positions in us of the units that hold cell c
UnitsOn(us, c) == {i \in 1..Len(us) : us[i].cell = c}
\* the cells that are the same cell before and after a step
KeptCells == DOMAIN cells \cap DOMAIN cells'
InFlight(id) == \E i \in 1..Len(units) : units[i].id = id
StartAll == ClickDownloadSelected \/ ClickDownloadAll

\* C1: for every item, at every moment, at most one download unit that has
\* not yet written its final Done or Error state exists for the item, for
\* any sequence of Download Selected and Download All commands.
C1_OneUnitPerItem ==
    \A c \in DOMAIN cells : Cardinality(UnitsOn(units, c)) <= 1

\* C2: every spawned download unit ends, and the step that ends it writes
\* Done or Error to its item; an item is Downloading only while a unit of
\* it is in flight, so none is left Downloading once all units have ended;
\* a Download command spawns a unit for every selected Pending item and no
\* item returns to Pending, so none of them is left Pending; an item that
\* is AlreadyOnDisk stays AlreadyOnDisk.
C2_UnitsEnd ==
    /\ \A id \in TaskIds : InFlight(id) ~> ~InFlight(id)
    /\ [][\A i \in 1..Len(units) :
            (\A j \in 1..Len(units') : units'[j].id # units[i].id)
              /\ units[i].cell \in DOMAIN cells'
            => cells'[units[i].cell].tag \in {"Done", "Error"}]_vars
    /\ [](\A c \in DOMAIN cells :
            cells[c].tag = "Downloading" => UnitsOn(units, c) # {})
    /\ [][StartAll =>
            \A i \in 1..Len(download_items') :
               download_items'[i].selected
                 /\ cells'[download_items'[i].state].tag = "Pending"
               => UnitsOn(units', download_items'[i].state) # {}]_vars
    /\ [][\A c \in KeptCells :
            /\ cells'[c].tag = "Pending" => cells[c].tag = "Pending"
            /\ cells[c].tag = "AlreadyOnDisk" => cells'[c].tag = "AlreadyOnDisk"]_vars

\* both units of a Download All have ended, one with Done and one with
\* Error, and no unit is left
C2_Witness ==
    /\ units = <<>>
    /\ \E i, j \in 1..Len(download_items) :
          /\ cells[download_items[i].state].tag = "Done"
          /\ cells[download_items[j].state].tag = "Error"
          /\ download_items[i].selected /\ download_items[j].selected

\* C3: a Download Selected or Download All command spawns, for each item,
\* exactly one unit when the item is selected and its state at the call is
\* Pending, Error or Done, and none otherwise (unselected, Downloading,
\* AlreadyOnDisk); the units spawned are added to those in flight, which
\* stay.
C3_SpawnsIffEligible ==
    [][StartAll =>
        /\ Len(units') >= Len(units)
        /\ SubSeq(units', 1, Len(units)) = units
        /\ \A j \in (Len(units) + 1)..Len(units') :
              /\ units'[j].pc = "spawned"
              /\ \E i \in 1..Len(download_items') :
                    /\ download_items'[i].state = units'[j].cell
                    /\ download_items'[i].attachment = units'[j].attachment
        /\ \A i \in 1..Len(download_items') :
              Cardinality({j \in (Len(units) + 1)..Len(units') :
                             units'[j].cell = download_items'[i].state})
              = IF /\ download_items'[i].selected
                   /\ cells'[download_items'[i].state].tag
                        \in {"Pending", "Error", "Done"}
                THEN 1 ELSE 0]_vars

\* one command has spawned a unit for each of the two selected items of the
\* issue; neither unit has run yet
C3_Witness ==
    /\ Len(units) = 2
    /\ units[1].pc = "spawned" /\ units[2].pc = "spawned"
    /\ units[1].cell # units[2].cell
    /\ \A i \in 1..Len(download_items) : download_items[i].selected

\* the per-item state machine of C4
Allowed(old, new) ==
    \/ old.tag = "Pending" /\ new.tag = "Downloading" /\ new.downloaded = 0
    \/ /\ old.tag = "Downloading" /\ new.tag = "Downloading"
       /\ new.downloaded >= old.downloaded
    \/ old.tag = "Downloading" /\ new.tag \in {"Done", "Error"}
    \/ old.tag \in {"Error", "Done"} /\ new.tag = "Downloading" /\ new.downloaded = 0

\* C4: every change of an item's state follows the per-item state machine:
\* Pending -> Downloading{0}; Downloading -> Downloading with a downloaded
\* count that does not decrease; Downloading -> Done or Error; Error or
\* Done -> Downloading{0} on a re-attempt.
C4_StateMachine ==
    [][\A c \in KeptCells : cells'[c] # cells[c] => Allowed(cells[c], cells'[c])]_vars

\* C5: AlreadyOnDisk is the state of an item exactly when attachment_exists
\* holds of its attachment as the item is created from a fetched issue, and
\* the item is then unselected, otherwise Pending and selected; no later
\* step moves an item into or out of AlreadyOnDisk, and no unit is spawned
\* for or runs on an AlreadyOnDisk item.
C5_AlreadyOnDisk ==
    /\ [][\A c \in KeptCells :
            cells[c].tag = "AlreadyOnDisk" <=> cells'[c].tag = "AlreadyOnDisk"]_vars
    /\ [][\A i \in 1..Len(download_items') :
            LET item == download_items'[i] IN
            item.state \notin DOMAIN cells =>
              /\ current_issue'.some
              /\ cells'[item.state] =
                    IF attachment_exists(disk', current_issue'.val.key, item.attachment)
                    THEN AlreadyOnDisk ELSE Pending
              /\ (Repaint \/ ClickFetchA)
                    => item.selected = (cells'[item.state].tag # "AlreadyOnDisk")]_vars
    /\ [](\A i \in 1..Len(units) : cells[units[i].cell].tag # "AlreadyOnDisk")

\* an item found on disk when the issue was fetched again, selected since by
\* Select All or a click on its row, and still AlreadyOnDisk
C5_Witness ==
    \E i \in 1..Len(download_items) :
        /\ cells[download_items[i].state].tag = "AlreadyOnDisk"
        /\ download_items[i].selected

\* C6: no step replaces the content of a file that exists: every write of
\* save_attachment goes to a path that did not exist before it.
C6_NeverOverwrites ==
    [][\A k \in Keys :
         \A f \in DOMAIN disk[k].files \cap DOMAIN disk'[k].files :
            disk'[k].files[f] = disk[k].files[f]]_vars

(***************************************************************************)
(* Control files and folders.                                              *)
(***************************************************************************)
MarkedIffClosed(ctrl) == ctrl.marked_for_deletion <=> is_closed(ctrl)

\* C7: every persisted control file and every in-memory incident record
\* has marked_for_deletion exactly when its recorded status is closed.
C7_MarkedIffClosed ==
    /\ \A k \in Keys : disk[k].ctrl.some => MarkedIffClosed(disk[k].ctrl.val)
    /\ \A i \in 1..Len(incidents) : MarkedIffClosed(incidents[i].control)

\* C8: a folder is removed only by the step in which the user confirms the
\* deletion of that key in the dialog open for it.
C8_DeleteConfirmed ==
    [][\A k \in Keys :
         disk[k].exists /\ ~disk'[k].exists
         => delete_confirm = Some(k) /\ ClickConfirm]_vars

\* C9: every issue directory that exists holds its control file, and every
\* attachment file lies in a date directory of it.
C9_Layout ==
    \A k \in Keys :
        disk[k].exists =>
            /\ disk[k].ctrl.some
            /\ \A f \in DOMAIN disk[k].files : f[1] \in disk[k].dates

(***************************************************************************)
(* The client alone: a tracker of any behaviour, and calls of the client's *)
(* operations against it. out is the last call with the requests it made   *)
(* and its result.                                                         *)
(***************************************************************************)
HttpStatuses == {200, 404, 410, 500}

\* an issue of a search response
SearchIssue(key, st) ==
    [key |-> key, fields |-> [summary |-> RemoteSummary(key),
                              status |-> [name |-> st]]]

\* what a JSON body holds: the status of the issue asked for, and the
\* issues of a search in the order of the tracker's ORDER BY updated DESC
Payloads ==
    {[issue_status |-> StOpen,
      issues |-> <<SearchIssue(KeyB, StOpen), SearchIssue(KeyA, StOpen)>>],
     [issue_status |-> StClosed,
      issues |-> <<SearchIssue(KeyA, StOpen), SearchIssue(KeyB, StOpen)>>]}

Responses ==
    {TransportErr}
    \cup {Http(status, ct, body, p.issue_status) @@ [issues |-> p.issues] :
             status \in HttpStatuses, ct \in ContentTypes, body \in Bodies,
             p \in Payloads}

\* the keys the client's operations are called with: they take any string
MalformedKey == <<"a", "1">>
CallKeys == Keys \cup {MalformedKey}
Servers == [{"3", "2"} -> Responses]

InitClient ==
    /\ InitApp
    /\ limit = 0
    /\ srv \in Servers
    /\ out = None
    /\ config = AppConfig_default
    /\ config_file = ConfigAbsent

CallFetchIssue ==
    /\ \E key \in CallKeys :
          LET r == fetch_issue(key, srv) IN
          out' = Some([call |-> "fetch_issue", key |-> key,
                       requests |-> r.requests, result |-> r.result,
                       status |-> IF r.result.ok THEN r.result.val.status
                                  ELSE <<>>])
    /\ UNCHANGED <<appVars, limit, config, config_file, srv>>

CallFetchIssueStatus ==
    /\ \E key \in CallKeys :
          LET r == fetch_issue_status(key, srv) IN
          out' = Some([call |-> "fetch_issue_status", key |-> key,
                       requests |-> r.requests, result |-> r.result,
                       status |-> IF r.result.ok THEN r.result.val ELSE <<>>])
    /\ UNCHANGED <<appVars, limit, config, config_file, srv>>

CallTestConnection ==
    /\ LET r == test_connection(srv) IN
       out' = Some([call |-> "test_connection", key |-> <<>>,
                    requests |-> r.requests, result |-> r.result,
                    status |-> <<>>])
    /\ UNCHANGED <<appVars, limit, config, config_file, srv>>

CallFetchMyIssues ==
    /\ LET r == fetch_my_issues(srv) IN
       out' = Some([call |-> "fetch_my_issues", key |-> <<>>,
                    requests |-> r.requests, result |-> r.result,
                    status |-> <<>>])
    /\ UNCHANGED <<appVars, limit, config, config_file, srv>>

NextClient ==
    \/ CallFetchIssue
    \/ CallFetchIssueStatus
    \/ CallTestConnection
    \/ CallFetchMyIssues

SpecClient == InitClient /\ [][NextClient]_vars

(***************************************************************************)
(* Version fallback of the client.                                         *)
(***************************************************************************)
IssueCall ==
    out.some /\ out.val.call \in {"fetch_issue", "fetch_issue_status"}
NonHtml404(resp) ==
    resp.kind = "http" /\ resp.status = 404 /\ ~check_html_response(resp).some
Parseable2xx(resp) ==
    resp.kind = "http" /\ is_success(resp.status) /\ parses(resp)

\* the parts of the statement that do not depend on the answer of version 2:
\* version 3 is requested first, and when it answers 2xx version 2 is never
\* requested
V3First ==
    IssueCall =>
        /\ out.val.requests # <<>> /\ out.val.requests[1] = "3"
        /\ (srv["3"].kind = "http" /\ is_success(srv["3"].status))
              => out.val.requests = <<"3">>

\* the call fell back to version 2 and returned its answer as success
ReturnsV2 ==
    /\ out.val.requests = <<"3", "2">>
    /\ out.val.result.ok
    /\ out.val.status = srv["2"].issue_status

\* C10, as stated: fetch_issue and fetch_issue_status request version 3
\* first; when version 3 answers a non-HTML 404 and version 2 answers 2xx
\* with a parseable body the call returns the answer of version 2 as
\* success; when version 3 answers 2xx, version 2 is never requested.
C10_AsStated ==
    /\ V3First
    /\ (IssueCall /\ NonHtml404(srv["3"]) /\ Parseable2xx(srv["2"])) => ReturnsV2

\* C10, amended: as above, for an answer of version 2 that check_html_response
\* does not take for an HTML page (its content type is not text/html): an
\* answer with a parseable body and an HTML content type is returned as the
\* HTML error.
C10_Fallback ==
    /\ V3First
    /\ (/\ IssueCall
        /\ NonHtml404(srv["3"])
        /\ Parseable2xx(srv["2"])
        /\ ~check_html_response(srv["2"]).some) => ReturnsV2

\* a call that fell back: version 3 answered a non-HTML 404, version 2 a
\* parseable 2xx of another issue status, and the call returned it
C10_Witness ==
    /\ IssueCall
    /\ NonHtml404(srv["3"])
    /\ Parseable2xx(srv["2"])
    /\ ~check_html_response(srv["2"]).some
    /\ srv["2"].issue_status # srv["3"].issue_status
    /\ ReturnsV2

(***************************************************************************)
(* Which answers make the client ask the next version or endpoint.         *)
(***************************************************************************)
Requested(ver) == \E i \in 1..Len(out.val.requests) : out.val.requests[i] = ver

\* answers of version 3 that C11 names as ending the call: a transport
\* error, a failing status other than 404, a 2xx body that does not parse
AbortsIssueCall(resp) ==
    \/ resp.kind = "transport"
    \/ resp.kind = "http" /\ ~is_success(resp.status) /\ resp.status # 404
    \/ resp.kind = "http" /\ is_success(resp.status) /\ ~parses(resp)

\* C11: fetch_issue and fetch_issue_status request version 2 only after a
\* non-HTML 404 of version 3; a transport error, another failing status or
\* a parse failure on version 3 ends the call with an error after one
\* request; a 404 of version 2 is returned as an error; a call makes at
\* most two requests.
C11_FallbackOnly ==
    IssueCall =>
        /\ Len(out.val.requests) <= 2
        /\ Requested("2") =>
              out.val.requests = <<"3", "2">> /\ NonHtml404(srv["3"])
        /\ AbortsIssueCall(srv["3"]) =>
              out.val.requests = <<"3">> /\ ~out.val.result.ok
        /\ (Requested("2") /\ srv["2"].kind = "http" /\ srv["2"].status = 404)
              => ~out.val.result.ok

\* a call that fell back and got a non-HTML 404 from version 2 as well
C11_Witness ==
    /\ IssueCall
    /\ out.val.requests = <<"3", "2">>
    /\ NonHtml404(srv["2"])
    /\ ~out.val.result.ok

\* an answer that is an HTML page by its content type or by its body
IsHtml(resp) ==
    resp.kind = "http"
    /\ (resp.content_type = "text/html" \/ resp.body = "<html>")

\* the answer to the i-th request of the call
Answer(i) ==
    srv[IF out.val.call = "fetch_my_issues"
        THEN endpoint_version(out.val.requests[i]) ELSE out.val.requests[i]]

\* C12: in test_connection, fetch_issue, fetch_issue_status and
\* fetch_my_issues an answer that is an HTML page, whatever its status, ends
\* the call with the HTML error: it is the answer to the last request made.
C12_HtmlEndsCall ==
    out.some =>
        /\ out.val.requests # <<>>
        /\ \A i \in 1..Len(out.val.requests) :
              IsHtml(Answer(i)) =>
                 /\ i = Len(out.val.requests)
                 /\ out.val.result = Err("Got an HTML page instead of JSON")

\* a search whose modern endpoint answered 410 with an HTML body under a
\* JSON content type, and a connection test that got an HTML page with 2xx
C12_Witness ==
    /\ out.some
    /\ out.val.call = "fetch_my_issues"
    /\ srv["3"].kind = "http" /\ srv["3"].status = 410
    /\ srv["3"].content_type = "application/json" /\ srv["3"].body = "<html>"
    /\ out.val.requests = <<"rest/api/3/search/jql">>
    /\ out.val.result = Err("Got an HTML page instead of JSON")

NonHtml(resp) == resp.kind = "http" /\ ~IsHtml(resp)
Answers2xxJson(resp) ==
    NonHtml(resp) /\ is_success(resp.status) /\ resp.body \in {"json", "{}"}
AnswersFailure(resp) == NonHtml(resp) /\ ~is_success(resp.status)
ConnectedOn(ver) == out.val.result.ok /\ out.val.result.val.api_ver = ver

\* C13: test_connection requests version 3, then version 2; a success names
\* the first version that answered non-HTML 2xx with JSON; a non-HTML
\* failing status of version 3 leads to version 2; the result is the
\* authentication failure exactly when both versions answered a non-HTML
\* failing status; a transport error on either version ends the call with
\* that error.
C13_TestConnection ==
    (out.some /\ out.val.call = "test_connection") =>
        /\ out.val.requests \in {<<"3">>, <<"3", "2">>}
        /\ ConnectedOn("3") <=> Answers2xxJson(srv["3"])
        /\ ConnectedOn("2") <=>
              AnswersFailure(srv["3"]) /\ Answers2xxJson(srv["2"])
        /\ AnswersFailure(srv["3"]) <=> Requested("2")
        /\ out.val.result = Err("Authentication failed") <=>
              AnswersFailure(srv["3"]) /\ AnswersFailure(srv["2"])
        /\ srv["3"].kind = "transport" =>
              out.val.requests = <<"3">> /\ out.val.result = Err("Request failed")
        /\ (Requested("2") /\ srv["2"].kind = "transport") =>
              out.val.result = Err("Request failed")

\* version 3 answered 500, version 2 answered: connected on version 2
C13_Witness ==
    /\ out.some /\ out.val.call = "test_connection"
    /\ srv["3"].kind = "http" /\ srv["3"].status = 500
    /\ out.val.requests = <<"3", "2">>
    /\ ConnectedOn("2")

Modern == "rest/api/3/search/jql"
Legacy == "rest/api/2/search"

\* the issues of an answer, as the client is to return them
SameIssues(list, resp) ==
    /\ Len(list) = Len(resp.issues)
    /\ \A i \in 1..Len(list) :
          /\ list[i].key = resp.issues[i].key
          /\ list[i].summary = resp.issues[i].fields.summary
          /\ list[i].status = resp.issues[i].fields.status.name

\* C14: fetch_my_issues requests the modern search endpoint first and the
\* legacy one exactly when the modern one answered a non-HTML 404 or 410; a
\* failing status of the legacy endpoint is returned as an error; a success
\* returns the issues of the accepted answer in the answer's order.
C14_Search ==
    (out.some /\ out.val.call = "fetch_my_issues") =>
        /\ out.val.requests \in {<<Modern>>, <<Modern, Legacy>>}
        /\ Requested(Legacy) <=>
              NonHtml(srv["3"]) /\ srv["3"].status \in {404, 410}
        /\ (Requested(Legacy) /\ srv["2"].kind = "http"
              /\ ~is_success(srv["2"].status)) => ~out.val.result.ok
        /\ out.val.result.ok =>
              SameIssues(out.val.result.val, Answer(Len(out.val.requests)))

\* the modern endpoint is gone (410), the legacy one answers two issues
\* with the later key first, and they are returned in that order
C14_Witness ==
    /\ out.some /\ out.val.call = "fetch_my_issues"
    /\ srv["3"].kind = "http" /\ srv["3"].status = 410
    /\ out.val.requests = <<Modern, Legacy>>
    /\ out.val.result.ok
    /\ Len(out.val.result.val) = 2
    /\ out.val.result.val[1].key = KeyB /\ out.val.result.val[2].key = KeyA

\* C15: fetch_issue called with a key that is no PREFIX-NUMBER issue key
\* returns a validation error without a request, so that no request is
\* made for a malformed key by fetch_issue or fetch_issue_status.
C15_Validates ==
    (IssueCall /\ ~is_valid_issue_key(out.val.key)) =>
        out.val.requests = <<>> /\ ~out.val.result.ok

(***************************************************************************)
(* The total of a download in progress.                                    *)
(***************************************************************************)
\* the unit is the only one that writes its item's state
OwnsCell(i) == Cardinality(UnitsOn(units, units[i].cell)) = 1

\* C16: the total of the Downloading state a unit publishes when it starts
\* is the response's declared content length, or 0 when it declares none,
\* and every later Downloading state of the unit carries the same total:
\* once the response is there the published total is its content length, and
\* a chunk leaves the published total as it was.
C16_TotalIsContentLength ==
    [][\A i \in 1..Len(units) :
          (OwnsCell(i) /\ cells[units[i].cell].tag = "Downloading") =>
             /\ (UnitResponse(i) /\ Len(units') = Len(units)) =>
                   cells'[units[i].cell].total = units'[i].total
             /\ UnitChunk(i) =>
                   cells'[units[i].cell].total = cells[units[i].cell].total]_vars

(***************************************************************************)
(* The row of an item: its progress bar and its label, for an item in any  *)
(* state. out is what the row shows.                                       *)
(***************************************************************************)
MaxBytes == 7

FileStates ==
    {Pending, Done, AlreadyOnDisk, Error("Request failed"), Error("HTTP status")}
    \cup {Downloading(d, t) : d \in 0..MaxBytes, t \in 0..MaxBytes}

InitRow ==
    /\ tab = "Incident"
    /\ fetch_status = None
    /\ current_issue = None
    /\ download_items = <<[attachment |-> Att3, state |-> 1, selected |-> TRUE]>>
    /\ cells \in [{1} -> FileStates]
    /\ units = <<>>
    /\ fetches = [k \in Keys |-> 0]
    /\ disk = [k \in Keys |-> NoDir]
    /\ incidents = <<>>
    /\ check_status = <<>>
    /\ checks = [k \in Keys |-> 0]
    /\ delete_confirm = None
    /\ spawned = 0
    /\ MyIssuesIdle
    /\ limit = 0
    /\ srv = DefaultServer
    /\ out = None
    /\ config = AppConfig_default
    /\ config_file = ConfigAbsent

\* one row of the attachments grid
RenderRow ==
    /\ \E i \in 1..Len(download_items) :
          LET state == cells[download_items[i].state] IN
          out' = Some([state |-> state,
                       frac |-> progress_fraction(state),
                       label |-> label(state)])
    /\ UNCHANGED <<appVars, limit, config, config_file, srv>>

NextRow == RenderRow

SpecRow == InitRow /\ [][NextRow]_vars

\* C17: a total of 0 is never a divisor: progress_fraction and label divide
\* downloaded by total only when total > 0; for Downloading with total 0
\* progress_fraction yields no fraction and label shows the byte count.
C17_NoZeroDivisor ==
    out.some =>
        LET state == out.val.state IN
        /\ out.val.frac.some => out.val.frac.val.den > 0
        /\ state.tag = "Downloading" =>
              IF state.total > 0
              THEN /\ out.val.frac = Some([num |-> state.downloaded,
                                           den |-> state.total])
                   /\ out.val.label.text = "%"
                   /\ out.val.label.digits =
                         fmt_num((state.downloaded * 100) \div state.total)
              ELSE /\ out.val.frac = None
                   /\ out.val.label = [digits |-> fmt_num(state.downloaded),
                                       text |-> " B", arg |-> ""]

\* a row of an item that has received 3 bytes of an undeclared length
C17_Witness ==
    /\ out.some
    /\ out.val.state = Downloading(3, 0)
    /\ out.val.frac = None
    /\ out.val.label.digits = <<"3">> /\ out.val.label.text = " B"

(***************************************************************************)
(* Downloading an item again. The run starts where a run of SpecDownload   *)
(* stands after issue A-1 was fetched, its second row unticked and its     *)
(* first attachment downloaded: that item is Done and its file is on disk. *)
(* Two more tasks may be started.                                          *)
(***************************************************************************)
IssueA ==
    [key |-> KeyA, summary |-> RemoteSummary(KeyA), status |-> StOpen,
     attachments |-> RemoteAttachments(KeyA)]

AfterFirstDownload ==
    /\ tab = "Incident"
    /\ fetch_status = None
    /\ current_issue = Some(IssueA)
    /\ download_items =
          <<[attachment |-> Att1, state |-> 1, selected |-> TRUE],
            [attachment |-> Att2, state |-> 2, selected |-> FALSE]>>
    /\ cells = [c \in {1, 2} |-> IF c = 1 THEN Done ELSE Pending]
    /\ units = <<>>
    /\ fetches = [k \in Keys |-> 0]
    /\ disk = [k \in Keys |->
                 IF k = KeyA
                 THEN [exists |-> TRUE,
                       ctrl |-> Some(ControlFile_new(KeyA, IssueA.summary,
                                                     IssueA.status)),
                       dates |-> {format_date(Att1.created)},
                       files |-> [f \in {<<format_date(Att1.created),
                                           Att1.filename>>} |-> Att1.id]]
                 ELSE NoDir]
    /\ incidents = <<>>
    /\ check_status = <<>>
    /\ checks = [k \in Keys |-> 0]
    /\ delete_confirm = None
    /\ spawned = 2
    /\ MyIssuesIdle

InitRedownload ==
    /\ AfterFirstDownload
    /\ limit = MaxRunTasks
    /\ srv = DefaultServer
    /\ out = None
    /\ config = AppConfig_default
    /\ config_file = ConfigAbsent

NextRedownload ==
    \/ Repaint
    \/ ClickToggle
    \/ ClickSelectAll
    \/ ClickDeselectAll
    \/ ClickDownloadSelected
    \/ ClickDownloadAll
    \/ UnitStep

SpecRedownload == InitRedownload /\ [][NextRedownload]_vars

\* the files of the date directory a unit writes to
FilesOf(d, i) == d[units[i].issue_key].files
DateOf(i) == format_date(units[i].attachment.created)

\* the unit's write goes through: its item becomes Done
Saves(i) ==
    /\ UnitWrite(i)
    /\ \/ disk' # disk
       \/ units[i].cell \in DOMAIN cells' /\ cells'[units[i].cell] = Done

\* the unit downloads again an item that was Done, and the file of the
\* earlier download is there
DownloadsAgain(i) ==
    /\ units[i].started_from = "Done"
    /\ \E f \in DOMAIN FilesOf(disk, i) :
          f[1] = DateOf(i) /\ FilesOf(disk, i)[f] = units[i].attachment.id

\* name is the attachment's name with the lowest suffix that is free in d
NextFreeSuffix(d, i, name) ==
    \E n \in 2..(Cardinality(DOMAIN FilesOf(d, i)) + 2) :
        /\ name = candidate_name(units[i].attachment.filename, n)
        /\ <<DateOf(i), name>> \notin DOMAIN FilesOf(d, i)
        /\ \A m \in 2..(n - 1) :
              <<DateOf(i), candidate_name(units[i].attachment.filename, m)>>
                 \in DOMAIN FilesOf(d, i)

\* C18: Download All starts a unit for every Done item, and the unit of an
\* item that was Done writes a new file named with the next free suffix,
\* leaving every file that was there, the earlier download's among them, with
\* its content.
C18_RedownloadKeepsFiles ==
    [][/\ (ClickDownloadAll /\ ~fetch_status.some) =>
             \A j \in 1..Len(download_items) :
                LET c == download_items[j].state IN
                cells[c] = Done =>
                   Cardinality(UnitsOn(units', c)) =
                      Cardinality(UnitsOn(units, c)) + 1
       /\ \A i \in 1..Len(units) :
             (Saves(i) /\ DownloadsAgain(i)) =>
                /\ NextFreeSuffix(disk, i, units[i].path)
                /\ <<DateOf(i), units[i].path>> \in DOMAIN FilesOf(disk', i)
                /\ \A f \in DOMAIN FilesOf(disk, i) :
                      /\ f \in DOMAIN FilesOf(disk', i)
                      /\ FilesOf(disk', i)[f] = FilesOf(disk, i)[f]]_vars

(***************************************************************************)
(* What a step of a download unit may change.                              *)
(***************************************************************************)
StepOf(i) ==
    \/ UnitBegin(i)
    \/ UnitResponse(i)
    \/ UnitChunk(i)
    \/ UnitStreamError(i)
    \/ UnitStreamEnd(i)
    \/ UnitWrite(i)

\* the unit ends, and not by a write that stored its attachment
Fails(i) ==
    /\ StepOf(i)
    /\ Len(units') < Len(units)
    /\ ~(/\ UnitWrite(i)
         /\ <<DateOf(i), units[i].path>> \in DOMAIN FilesOf(disk', i)
         /\ FilesOf(disk', i)[<<DateOf(i), units[i].path>>] = units[i].attachment.id)

\* C19: a step of a download unit writes no state but its own item's and
\* leaves every other unit in flight as it was; a unit that fails leaves
\* every saved file and every control file as it was.
C19_FailureIsLocal ==
    [][\A i \in 1..Len(units) :
          /\ StepOf(i) =>
                /\ \A c \in KeptCells \ {units[i].cell} : cells'[c] = cells[c]
                /\ download_items' = download_items
                /\ \A j \in (1..Len(units)) \ {i} :
                      \E k \in 1..Len(units') : units'[k] = units[j]
          /\ Fails(i) =>
                \A key \in Keys :
                   /\ disk'[key].ctrl = disk[key].ctrl
                   /\ \A f \in DOMAIN disk[key].files :
                         /\ f \in DOMAIN disk'[key].files
                         /\ disk'[key].files[f] = disk[key].files[f]]_vars

(***************************************************************************)
(* Scanning a base directory of any content. disk is the listing of the    *)
(* base directory, out the result of the scan.                             *)
(***************************************************************************)
NameOther == <<"Z">>
DirNames == {KeyA, KeyB, NameOther}

\* the control files found on disk: any key, open or closed
ControlFiles ==
    {ControlFile_new(k, RemoteSummary(k), StOpen) : k \in Keys}

DirEntries ==
    {Absent, RegularFile, Dir(CtrlMissing), Dir(CtrlUnreadable), Dir(CtrlGarbage)}
    \cup {Dir(CtrlJson(c)) : c \in ControlFiles}

InitScan ==
    /\ tab = "IncidentsManager"
    /\ fetch_status = None
    /\ current_issue = None
    /\ download_items = <<>>
    /\ cells = [c \in {} |-> Pending]
    /\ units = <<>>
    /\ fetches = [k \in Keys |-> 0]
    /\ disk \in [DirNames -> DirEntries]
    /\ incidents = <<>>
    /\ check_status = <<>>
    /\ checks = [k \in Keys |-> 0]
    /\ delete_confirm = None
    /\ spawned = 0
    /\ MyIssuesIdle
    /\ limit = 0
    /\ srv = DefaultServer
    /\ out = None
    /\ config = AppConfig_default
    /\ config_file = ConfigAbsent

CallScan ==
    /\ out' = Some([call |-> "scan_incidents", result |-> scan_dir(disk)])
    /\ UNCHANGED <<appVars, limit, config, config_file, srv>>

NextScan == CallScan

SpecScan == InitScan /\ [][NextScan]_vars

\* a directory of the base directory with a control file that can be read
\* and parsed
IsIncident(n) ==
    /\ disk[n].kind = "dir"
    /\ disk[n].ctrl_file \notin {CtrlMissing, CtrlUnreadable, CtrlGarbage}

\* C20: scan_incidents returns exactly one entry for each directory of the
\* base directory that holds a readable, parseable control file, with that
\* control file, and nothing else; the entries are in ascending order of
\* their issue keys.
C20_ScanExact ==
    out.some =>
        LET result == out.val.result IN
        /\ \A n \in DirNames :
              Cardinality({i \in 1..Len(result) : result[i].path = n})
                 = IF IsIncident(n) THEN 1 ELSE 0
        /\ \A i \in 1..Len(result) :
              /\ result[i].path \in DirNames
              /\ result[i].control = disk[result[i].path].ctrl_file.control
        /\ \A i, j \in 1..Len(result) :
              i < j => ~str_lt(result[j].control.issue_key,
                               result[i].control.issue_key)

\* a base directory with a regular file, and two incident directories
\* whose names are in the other order than the keys of their control files
C20_Witness ==
    /\ out.some
    /\ disk[NameOther] = RegularFile
    /\ IsIncident(KeyA) /\ disk[KeyA].ctrl_file.control.issue_key = KeyB
    /\ IsIncident(KeyB) /\ disk[KeyB].ctrl_file.control.issue_key = KeyA
    /\ Len(out.val.result) = 2
    /\ out.val.result[1].path = KeyB

(***************************************************************************)
(* The storage calls on an issue directory: attachment_exists,             *)
(* resolve_conflict and latest_date_folder, called on every issue          *)
(* directory that holds files under the names of StoredPaths and           *)
(* subdirectories under the names of OtherDirs.                            *)
(***************************************************************************)
Date2024 == <<"2", "0", "2", "4", "-", "0", "1", "-", "1", "5">>
Date1970 == <<"1", "9", "7", "0", "-", "0", "1", "-", "0", "1">>
DirNotes == <<"n", "o", "t", "e", "s">>
DirLetters == <<"z", "z", "z", "z", "-", "z", "z", "-", "z", "z">>
NameRP2 == <<"r", "_", "2", ".", "p">>
NameRP3 == <<"r", "_", "3", ".", "p">>
NameRP4 == <<"r", "_", "4", ".", "p">>
NameN2 == <<"n", "_", "2">>
NameN3 == <<"n", "_", "3">>

StoredPaths ==
    {<<Date2024, NameRP>>, <<Date2024, NameRP2>>, <<Date2024, NameRP3>>,
     <<Date2024, NameN>>, <<Date2024, NameN2>>, <<Date1970, NameRP>>}
FileContents == {"10", Truncated}
OtherDirs == {Date1970, DirNotes, DirLetters}

\* the issue directories: absent, or holding some of the files, the date
\* directories of these files and some other subdirectories
IssueDirs ==
    {NoDir} \cup
    {[exists |-> TRUE, ctrl |-> None,
      dates |-> {p[1] : p \in DOMAIN f} \cup x, files |-> f] :
        f \in UNION {[ps -> FileContents] : ps \in SUBSET StoredPaths},
        x \in SUBSET OtherDirs}

InitStorage ==
    /\ tab = "Incident"
    /\ fetch_status = None
    /\ current_issue = None
    /\ download_items = <<>>
    /\ cells = [c \in {} |-> Pending]
    /\ units = <<>>
    /\ fetches = [k \in Keys |-> 0]
    /\ \E dir \in IssueDirs : disk = [k \in Keys |-> IF k = KeyA THEN dir ELSE NoDir]
    /\ incidents = <<>>
    /\ check_status = <<>>
    /\ checks = [k \in Keys |-> 0]
    /\ delete_confirm = None
    /\ spawned = 0
    /\ MyIssuesIdle
    /\ limit = 0
    /\ srv = DefaultServer
    /\ out = None
    /\ config = AppConfig_default
    /\ config_file = ConfigAbsent

CallAttachmentExists ==
    /\ \E att \in {Att1, Att3} :
          out' = Some([call |-> "attachment_exists", att |-> att,
                       result |-> attachment_exists(disk, KeyA, att)])
    /\ UNCHANGED <<appVars, limit, config, config_file, srv>>

CallResolveConflict ==
    /\ \E date \in {Date2024, Date1970}, filename \in {NameRP, NameN} :
          out' = Some([call |-> "resolve_conflict", date |-> date,
                       filename |-> filename,
                       result |-> resolve_conflict(disk, KeyA, date, filename)])
    /\ UNCHANGED <<appVars, limit, config, config_file, srv>>

CallLatestDateFolder ==
    /\ out' = Some([call |-> "latest_date_folder",
                    result |-> latest_date_folder(disk, KeyA)])
    /\ UNCHANGED <<appVars, limit, config, config_file, srv>>

NextStorage ==
    \/ CallAttachmentExists
    \/ CallResolveConflict
    \/ CallLatestDateFolder

SpecStorage == InitStorage /\ [][NextStorage]_vars

Called(call) == out.some /\ out.val.call = call
FilesAt(key) == DOMAIN disk[key].files

\* the path base/issue/date/name of an attachment, written out
ExactPath(att) ==
    IF att = Att1 THEN <<Date2024, NameRP>> ELSE <<Date1970, NameN>>

\* C21: attachment_exists(issue, attachment) is true exactly when the path
\* base/issue/created-as-YYYY-MM-DD/filename exists, whatever the file
\* holds; a file under a suffixed name or under another date does not make
\* it true.
C21_ExactPath ==
    Called("attachment_exists") =>
        (out.val.result <=> ExactPath(out.val.att) \in FilesAt(KeyA))

\* the attachment r.p of 2024-01-15 is asked for where r_2.p of that date
\* and r.p of another date exist, and where r.p exists cut short
C21_Witness ==
    /\ Called("attachment_exists") /\ out.val.att = Att1
    /\ \/ /\ <<Date2024, NameRP2>> \in FilesAt(KeyA)
          /\ <<Date1970, NameRP>> \in FilesAt(KeyA)
          /\ <<Date2024, NameRP>> \notin FilesAt(KeyA)
          /\ ~out.val.result
       \/ /\ <<Date2024, NameRP>> \in FilesAt(KeyA)
          /\ disk[KeyA].files[<<Date2024, NameRP>>] = Truncated
          /\ out.val.result

\* the names resolve_conflict tries for a file name, in its order
Tried(filename) ==
    IF filename = NameRP THEN <<NameRP, NameRP2, NameRP3, NameRP4>>
    ELSE <<NameN, NameN2, NameN3>>

\* C22: resolve_conflict returns the plain file name when it is unused and
\* otherwise stem_N.ext for the smallest N >= 2 that is unused; the name it
\* returns does not exist in the directory.
C22_SmallestFree ==
    Called("resolve_conflict") =>
        LET used(n) == <<out.val.date, n>> \in FilesAt(KeyA)
            tried == Tried(out.val.filename) IN
        /\ ~used(out.val.result)
        /\ \E i \in 1..Len(tried) :
              /\ out.val.result = tried[i]
              /\ \A j \in 1..(i - 1) : used(tried[j])

\* r.p and r_2.p exist and r_3.p is returned
C22_Witness ==
    /\ Called("resolve_conflict")
    /\ out.val.date = Date2024 /\ out.val.filename = NameRP
    /\ <<Date2024, NameRP>> \in FilesAt(KeyA)
    /\ <<Date2024, NameRP2>> \in FilesAt(KeyA)
    /\ <<Date2024, NameRP3>> \notin FilesAt(KeyA)
    /\ out.val.result = NameRP3

\* four digits, a dash, two digits, a dash, two digits
StrictDateShape(n) ==
    /\ Len(n) = 10
    /\ \A i \in 1..10 :
          IF i \in {5, 8} THEN n[i] = "-" ELSE is_ascii_digit(n[i])

\* C25: latest_date_folder returns the greatest subdirectory of the strict
\* shape YYYY-MM-DD, never a directory of another name, and the issue
\* directory when there is none of that shape.
C25_StrictShape ==
    Called("latest_date_folder") =>
        LET shaped == {n \in disk[KeyA].dates : StrictDateShape(n)}
            result == out.val.result IN
        IF shaped = {} THEN result = <<KeyA>>
        ELSE /\ Len(result) = 2 /\ result[2] \in shaped
             /\ \A n \in shaped : n = result[2] \/ str_lt(n, result[2])

\* the issue directory holds a subdirectory of 2024-01-15 and one of ten
\* letters and dashes
C25_Witness ==
    /\ Called("latest_date_folder")
    /\ {Date2024, DirLetters} \subseteq disk[KeyA].dates

(***************************************************************************)
(* The calls on text: parse_issue_key on short strings and on URLs,        *)
(* is_closed on status names, and the decoding of an issue document.       *)
(***************************************************************************)
MaxKeyLen == 3
KeyChars == {"a", "B", "1", "-", " "}
ShortTexts == UNION {[1..n -> KeyChars] : n \in 0..MaxKeyLen}

TextHttp == <<"h", "t", "t", "p">>
UrlRoot == TextHttp \o <<":", "/", "/", "h">>
Slash == <<"/">>
SegBrowse == <<"b", "r", "o", "w", "s", "e">>
SegIssues == <<"i", "s", "s", "u", "e", "s">>
LowerA == <<"a", "-", "1">>
LowerB == <<"b", "-", "2">>
Query == <<"?", "x">>
NotKey == <<"z", "z">>

\* inputs that start with http, each with the value the code returns
UrlCases ==
    {<<UrlRoot \o Slash \o SegBrowse \o Slash \o LowerA, Some(KeyA)>>,
     <<UrlRoot \o Slash \o SegIssues \o Slash \o LowerB \o Query, Some(KeyB)>>,
     <<UrlRoot \o Slash \o SegBrowse \o Slash \o LowerA \o Slash \o NotKey,
       Some(KeyA)>>,
     <<UrlRoot \o Slash \o SegBrowse \o Slash \o NotKey \o Slash \o SegIssues
         \o Slash \o LowerB, Some(KeyB)>>,
     <<UrlRoot \o Slash \o SegBrowse \o Slash \o LowerA \o Slash \o SegIssues
         \o Slash \o LowerB, Some(KeyA)>>,
     <<<<" ">> \o UrlRoot \o Slash \o SegBrowse \o Slash \o LowerA \o <<" ">>,
       Some(KeyA)>>,
     <<UrlRoot \o Slash \o SegBrowse, None>>,
     <<UrlRoot \o Slash \o SegBrowse \o Slash \o NotKey, None>>,
     <<UrlRoot, None>>,
     <<UrlRoot \o Slash \o LowerA, Some(KeyA)>>,
     <<UrlRoot \o Slash \o NotKey \o Slash \o LowerB \o Query, Some(KeyB)>>,
     <<UrlRoot \o Slash \o SegBrowse \o Slash \o NotKey \o Slash \o LowerA,
       Some(KeyA)>>,
     <<TextHttp \o <<"-", "1">>, Some(<<"H", "T", "T", "P", "-", "1">>)>>}

\* the inputs of UrlCases in which a browse or issues segment is followed
\* by a key
BrowseUrls ==
    {c[1] : c \in {c \in UrlCases :
        \E seg \in {SegBrowse, SegIssues}, key \in {LowerA, LowerB} :
            contains(c[1], Slash \o seg \o Slash \o key)}}

KeyTexts ==
    ShortTexts \cup {c[1] : c \in UrlCases}
    \cup {SegBrowse \o Slash \o LowerA}

StDone == <<"D", "o", "n", "e">>
StResolved == <<"R", "e", "s", "o", "l", "v", "e", "d">>
StPendingClosure ==
    <<"P", "e", "n", "d", "i", "n", "g", " ", "C", "l", "o", "s", "u", "r", "e">>
StInProgress ==
    <<"I", "n", " ", "P", "r", "o", "g", "r", "e", "s", "s">>
StBacklog == <<"B", "a", "c", "k", "l", "o", "g">>
StUnresolved == <<"U", "n", "r", "e", "s", "o", "l", "v", "e", "d">>
StUndone == <<"U", "n", "d", "o", "n", "e">>
ClosedNames == {StDone, StClosed, StResolved, StPendingClosure, StUnresolved}
OpenNames == {StInProgress, StOpen, StBacklog, StUndone}

\* a status name with the case of every second letter swapped
swap_case(s) ==
    [i \in 1..Len(s) |->
        IF i % 2 = 0 THEN s[i]
        ELSE IF Occurs(UpperChars, s[i]) THEN LowerChars[IndexIn(UpperChars, s[i])]
        ELSE IF Occurs(LowerChars, s[i]) THEN UpperChars[IndexIn(LowerChars, s[i])]
        ELSE s[i]]

Spellings(name) ==
    {name, to_uppercase(name), to_lowercase(name), swap_case(name)}

\* a field of a JSON object: left out, null, or a value
Omitted == [json |-> "omitted"]
JsonNull == [json |-> "null"]
Json(v) == [json |-> "value", val |-> v]

\* the texts of a date: the formats deserialize_jira_date tries in its
\* order, and a text none of them parses
DateFormats == <<"rfc3339", "%Y-%m-%dT%H:%M:%S%.3f%z", "%Y-%m-%dT%H:%M:%S%z">>
DateText(format, date) == [format |-> format, date |-> date]
DateTexts ==
    {DateText(DateFormats[2], <<2024, 1, 15>>), DateText("%Y-%m-%d", <<2024, 1, 15>>)}

\* deserialize_jira_date
deserialize_jira_date(v) ==
    IF v.json # "value" THEN Err("invalid type")
    ELSE IF \E i \in 1..Len(DateFormats) : v.val.format = DateFormats[i]
    THEN Ok(v.val.date)
    ELSE Err("Cannot parse date")

\* DateTime::UNIX_EPOCH
epoch == <<1970, 1, 1>>

\* a field without a default
required(v) ==
    IF v.json = "omitted" THEN Err("missing field")
    ELSE IF v.json = "null" THEN Err("invalid type")
    ELSE Ok(v.val)

\* #[serde(default)]
with_default(v, default) ==
    IF v.json = "omitted" THEN Ok(default) ELSE required(v)

\* the created field without its default
created_required(v) ==
    IF v.json = "omitted" THEN Err("missing field") ELSE deserialize_jira_date(v)

\* #[serde(deserialize_with = "deserialize_jira_date", default = "epoch")]
created_field(v) ==
    IF v.json = "omitted" THEN Ok(epoch) ELSE deserialize_jira_date(v)

\* Deserialize for JiraAttachment, and the Attachment fetch_issue maps it to
deserialize_attachment(a) ==
    LET id == required(a.id)
        filename == required(a.filename)
        size == with_default(a.size, 0)
        created == created_field(a.created) IN
    IF id.ok /\ filename.ok /\ size.ok /\ created.ok
    THEN Ok([id |-> id.val, filename |-> filename.val, size |-> size.val,
             created |-> created.val])
    ELSE Err("attachment")

\* Deserialize for JiraIssueResponse and the IssueInfo fetch_issue returns
deserialize_issue(doc) ==
    LET key == required(doc.key)
        summary == with_default(doc.summary, <<>>)
        status == required(doc.status)
        listed == with_default(doc.attachment, <<>>)
        attachments ==
            IF listed.ok
            THEN [i \in 1..Len(listed.val) |-> deserialize_attachment(listed.val[i])]
            ELSE <<>> IN
    IF /\ key.ok /\ summary.ok /\ status.ok /\ listed.ok
       /\ \A i \in 1..Len(attachments) : attachments[i].ok
    THEN Ok([key |-> key.val, summary |-> summary.val, status |-> status.val,
             attachments |-> [i \in 1..Len(attachments) |-> attachments[i].val]])
    ELSE Err("Failed to parse response")

MaxListed == 2
AttachmentObjects ==
    [id : {Json("10")}, filename : {Json(NameRP)},
     size : {Omitted, Json(1)},
     created : {Omitted, JsonNull} \cup {Json(t) : t \in DateTexts}]
IssueDocs ==
    [key : {Json(KeyA)},
     summary : {Omitted, JsonNull, Json(<<"s">>)},
     status : {Omitted, Json(StOpen)},
     attachment : {Omitted} \cup
         {Json(l) : l \in UNION {[1..n -> AttachmentObjects] : n \in 0..MaxListed}}]

CallParseIssueKey ==
    /\ \E input \in KeyTexts :
          out' = Some([call |-> "parse_issue_key", input |-> input,
                       result |-> parse_issue_key(input)])
    /\ UNCHANGED <<appVars, limit, config, config_file, srv>>

CallIsClosed ==
    /\ \E name \in ClosedNames \cup OpenNames : \E status \in Spellings(name) :
          out' = Some([call |-> "is_closed", name |-> name, status |-> status,
                       result |-> is_closed(ControlFile_new(KeyA, <<>>, status))])
    /\ UNCHANGED <<appVars, limit, config, config_file, srv>>

CallDeserializeIssue ==
    /\ \E doc \in IssueDocs :
          out' = Some([call |-> "deserialize_issue", doc |-> doc,
                       result |-> deserialize_issue(doc)])
    /\ UNCHANGED <<appVars, limit, config, config_file, srv>>

NextText ==
    \/ CallParseIssueKey
    \/ CallIsClosed
    \/ CallDeserializeIssue

SpecText == Init /\ [][NextText]_vars

Letters == {LowerChars[i] : i \in 1..26} \cup {UpperChars[i] : i \in 1..26}
Digits == {DigitChars[i] : i \in 1..10}

\* letters, a dash, digits
KeyShape(s) ==
    \E k \in 2..(Len(s) - 1) :
        /\ s[k] = "-"
        /\ \A i \in 1..(k - 1) : s[i] \in Letters
        /\ \A i \in (k + 1)..Len(s) : s[i] \in Digits

WellFormedKey(s) ==
    KeyShape(s) /\ \A i \in 1..Len(s) : s[i] \notin {LowerChars[j] : j \in 1..26}

\* C23 as stated: parse_issue_key returns the input in upper case when it
\* has the shape PREFIX-NUMBER, the key that follows a browse or issues
\* segment of a URL, and none for every other input.
C23_AsStated ==
    Called("parse_issue_key") =>
        LET input == out.val.input IN
        IF KeyShape(input) THEN out.val.result = Some(to_uppercase(input))
        ELSE IF input \in BrowseUrls THEN out.val.result.some
        ELSE out.val.result = None

\* C23: parse_issue_key is total; it trims its input; an input that does
\* not start with http gives itself in upper case when it has the shape
\* PREFIX-NUMBER and none otherwise; an input that starts with http gives
\* the key that follows its first browse or issues segment followed by a
\* key (the query left out), or else its last segment when that is a key,
\* or else none. Every value returned is a well-formed key in upper case.
C23_Parse ==
    Called("parse_issue_key") =>
        LET input == out.val.input
            result == out.val.result IN
        /\ result.some => WellFormedKey(result.val)
        /\ \A c \in UrlCases : input = c[1] => result = c[2]
        /\ ~starts_with(trim(input), TextHttp) =>
              result = IF KeyShape(trim(input))
                       THEN Some(to_uppercase(trim(input))) ELSE None

\* a key was taken from the last segment of a URL that has no browse or
\* issues segment
C23_Witness ==
    /\ Called("parse_issue_key")
    /\ out.val.input = UrlRoot \o Slash \o LowerA
    /\ out.val.result = Some(KeyA)

\* C24: is_closed is true exactly for a status that in lower case is done,
\* closed or resolved or contains clos or resolv: Done, Closed, Resolved and
\* Pending Closure are closed, In Progress, Open and Backlog are not, in
\* any letter case.
C24_Closed ==
    Called("is_closed") =>
        /\ out.val.result <=> out.val.name \in ClosedNames
        /\ out.val.result <=>
              LET s == to_lowercase(out.val.status) IN
              \/ s \in {to_lowercase(StDone), to_lowercase(StClosed),
                        to_lowercase(StResolved)}
              \/ \E i \in 1..Len(s), j \in 1..Len(s) :
                    SubSeq(s, i, j) \in {<<"c", "l", "o", "s">>,
                                         <<"r", "e", "s", "o", "l", "v">>}

\* Pending Closure in another case than written is closed
C24_Witness ==
    /\ Called("is_closed")
    /\ out.val.name = StPendingClosure /\ out.val.status # StPendingClosure
    /\ out.val.result

\* every field that is present holds a value the decoder accepts
PresentFieldsDecode(doc) ==
    /\ doc.summary # JsonNull
    /\ doc.status # Omitted
    /\ doc.attachment # Omitted =>
          \A i \in 1..Len(doc.attachment.val) :
              LET created == doc.attachment.val[i].created IN
              created # Omitted =>
                  /\ created # JsonNull
                  /\ created.val.format \in {DateFormats[j] : j \in 1..3}

\* C30: an issue document without summary, or with an attachment without
\* created date, still decodes: the summary is the empty string, that
\* attachment's date is the Unix epoch, the other attachments are as sent.
C30_Defaults ==
    Called("deserialize_issue") /\ PresentFieldsDecode(out.val.doc) =>
        LET doc == out.val.doc
            result == out.val.result
            listed == IF doc.attachment = Omitted THEN <<>>
                      ELSE doc.attachment.val IN
        /\ result.ok
        /\ result.val.summary =
              IF doc.summary = Omitted THEN <<>> ELSE doc.summary.val
        /\ Len(result.val.attachments) = Len(listed)
        /\ \A i \in 1..Len(listed) :
              /\ result.val.attachments[i].id = listed[i].id.val
              /\ result.val.attachments[i].filename = listed[i].filename.val
              /\ result.val.attachments[i].created =
                    IF listed[i].created = Omitted THEN <<1970, 1, 1>>
                    ELSE listed[i].created.val.date

\* a document without summary whose first attachment has no created date
\* and whose second has one
C30_Witness ==
    /\ Called("deserialize_issue")
    /\ out.val.doc.summary = Omitted
    /\ out.val.doc.attachment # Omitted
    /\ Len(out.val.doc.attachment.val) = 2
    /\ out.val.doc.attachment.val[1].created = Omitted
    /\ out.val.doc.attachment.val[2].created
          = Json(DateText(DateFormats[2], <<2024, 1, 15>>))
    /\ out.val.result.ok
    /\ out.val.result.val.attachments[2].created = <<2024, 1, 15>>

(***************************************************************************)
(* The Settings tab: the token and e-mail fields are edited and Save is    *)
(* clicked, from every configuration file an earlier run may have left.    *)
(***************************************************************************)
Tokens == {<<>>, <<"t">>, <<"u">>}
Emails == {<<>>, <<"e">>}
Nonces == {1, 2}

\* the files of earlier runs: blobs of the present key and of a lost one
StartFiles ==
    {ConfigAbsent, ConfigGarbage} \cup
    {ConfigJson(serialize_config(
         [AppConfig_default EXCEPT !.email = e, !.api_token_enc = b])) :
        e \in Emails,
        b \in {<<>>, Sealed(<<"t">>, "k1", 1), Sealed(<<"t">>, "k0", 1)}}

InitConfig ==
    /\ tab = "Settings"
    /\ fetch_status = None
    /\ current_issue = None
    /\ download_items = <<>>
    /\ cells = [c \in {} |-> Pending]
    /\ units = <<>>
    /\ fetches = [k \in Keys |-> 0]
    /\ disk = [k \in Keys |-> NoDir]
    /\ incidents = <<>>
    /\ check_status = <<>>
    /\ checks = [k \in Keys |-> 0]
    /\ delete_confirm = None
    /\ spawned = 0
    /\ MyIssuesIdle
    /\ limit = 0
    /\ srv = DefaultServer
    /\ out = None
    /\ config_file \in StartFiles
    /\ \E key \in KeyOutcomes : config = AppConfig_load(config_file, key)

\* render_settings: the API Token field
EditToken ==
    /\ \E t \in Tokens : config' = [config EXCEPT !.api_token = t]
    /\ UNCHANGED <<appVars, limit, config_file, srv, out>>

\* render_settings: the Email field
EditEmail ==
    /\ \E e \in Emails : config' = [config EXCEPT !.email = e]
    /\ UNCHANGED <<appVars, limit, config_file, srv, out>>

\* render_settings: the Save button
ClickSave ==
    /\ \E key \in KeyOutcomes, nonce \in Nonces, io \in ConfigIo :
          LET saved == AppConfig_save(config, config_file, key, nonce, io) IN
          /\ config_file' = saved.file
          /\ out' = Some([call |-> "save", token |-> config.api_token,
                          result |-> saved.result])
    /\ UNCHANGED <<appVars, limit, config, srv>>

NextConfig ==
    \/ EditToken
    \/ EditEmail
    \/ ClickSave

SpecConfig == InitConfig /\ [][NextConfig]_vars

\* the persisted record has an encrypted blob that is empty, or that seals
\* a token that is not empty, and no other field
SealsNoPlaintext(file) ==
    file.kind = "json" =>
        /\ DOMAIN file.fields = {"jira_url", "email", "download_dir", "api_token_enc"}
        /\ \A f \in DOMAIN file.fields \ {"api_token_enc"} :
              file.fields[f] \notin Tokens \ {<<>>}
        /\ file.fields.api_token_enc # <<>> =>
              file.fields.api_token_enc.sealed # <<>>

\* C27: the plaintext token is never written to disk: whatever is edited
\* and saved, the persisted record has no field holding the plaintext
\* token, only the encrypted blob, and a save writes an empty blob exactly
\* when the plaintext token it saves is empty.
C27_TokenSealed ==
    [][/\ SealsNoPlaintext(config_file')
       /\ (Called("save")' /\ out'.val.result.ok /\ ClickSave) =>
             /\ config_file'.kind = "json"
             /\ config_file'.fields.api_token_enc = <<>>
                   <=> config.api_token = <<>>
             /\ config.api_token # <<>> =>
                   config_file'.fields.api_token_enc.sealed = config.api_token]_vars

\* a token was typed and saved over a record with an empty blob, and an
\* empty token was saved over a record with a blob
C27_Witness ==
    /\ Called("save") /\ out.val.result.ok
    /\ config_file.kind = "json"
    /\ \/ out.val.token # <<>> /\ config_file.fields.api_token_enc # <<>>
          /\ config.api_token_enc = <<>>
       \/ out.val.token = <<>> /\ config_file.fields.api_token_enc = <<>>
          /\ config.api_token_enc # <<>>

(***************************************************************************)
(* Who writes the control files, and what a download unit and a status     *)
(* check leave behind.                                                     *)
(***************************************************************************)
ControlFilesOf(d) == [k \in Keys |-> d[k].ctrl]

\* C26: the control files and the incident list are written by the frames
\* of the UI thread only: no step of a download unit, of a fetch task or of
\* a status-check task changes a control file or the incident list.
C26_OnlyFramesWrite ==
    [][UnitStep \/ FetchDone \/ CheckDone =>
          /\ incidents' = incidents
          /\ ControlFilesOf(disk') = ControlFilesOf(disk)]_vars

\* a status-check task has ended while an incident with a control file on
\* disk is listed
C26_Witness ==
    /\ check_status # <<>>
    /\ \E i \in 1..Len(incidents) :
          /\ disk[incidents[i].control.issue_key].ctrl.some
          /\ check_status[1][1] = incidents[i].control.issue_key

\* unit i ends in this step
Ends(i) == \A j \in 1..Len(units') : units'[j].id # units[i].id

\* the file unit i was to write holds the whole attachment
Stored(d, i) ==
    LET key == units[i].issue_key
        path == <<format_date(units[i].attachment.created), units[i].path>> IN
    /\ d[key].exists
    /\ path \in DOMAIN d[key].files
    /\ d[key].files[path] = units[i].attachment.id

\* C28: a unit sets its item to Done only in the step in which
\* save_attachment's write of its whole buffer succeeds; a unit whose
\* download fails (request error, failing status, stream error) ends with
\* the disk as it was and the item in Error; a unit whose save fails ends
\* with the item in Error.
C28_DoneOnlyAfterSave ==
    [][\A i \in 1..Len(units) :
          LET cell == units[i].cell
              kept == cell \in DOMAIN cells'
              download == UnitBegin(i) \/ UnitResponse(i) \/ UnitChunk(i)
                          \/ UnitStreamError(i)
              save == UnitStreamEnd(i) \/ UnitWrite(i) IN
          /\ download /\ kept /\ cells'[cell] = Done =>
                cells[cell] = Done /\ cells' = cells
          /\ download => disk' = disk
          /\ download /\ Ends(i) /\ kept => cells'[cell].tag = "Error"
          /\ save /\ kept /\ cells'[cell] # cells[cell] =>
                \/ /\ cells'[cell] = Done
                   /\ UnitWrite(i)
                   /\ units[i].downloaded = units[i].attachment.size
                   /\ Stored(disk', i)
                \/ cells'[cell].tag = "Error"
          /\ save /\ Ends(i) /\ kept /\ ~Stored(disk', i) =>
                cells'[cell].tag = "Error"]_vars

\* one item is Done with its file on disk and another is in Error with no
\* unit left
C28_Witness ==
    /\ units = <<>>
    /\ \E i, j \in 1..Len(download_items) :
          /\ cells[download_items[i].state] = Done
          /\ attachment_exists(disk, current_issue.val.key,
                               download_items[i].attachment)
          /\ cells[download_items[j].state].tag = "Error"

\* the results queued for an issue key, in their order
ResultsFor(key) ==
    SelectSeq(check_status, LAMBDA u : u[1] = key)

\* the first incident of the list with the key of incident i is i
FirstWithKey(i) ==
    \A j \in 1..(i - 1) :
        incidents[j].control.issue_key # incidents[i].control.issue_key

AfterFetchA ==
    /\ tab = "Incident"
    /\ fetch_status = None
    /\ current_issue = Some(IssueA)
    /\ download_items =
          <<[attachment |-> Att1, state |-> 1, selected |-> TRUE],
            [attachment |-> Att2, state |-> 2, selected |-> FALSE]>>
    /\ cells = [c \in {1, 2} |-> Pending]
    /\ units = <<>>
    /\ fetches = [k \in Keys |-> 0]
    /\ disk = [k \in Keys |->
                 IF k = KeyA
                 THEN [exists |-> TRUE,
                       ctrl |-> Some(ControlFile_new(KeyA, IssueA.summary,
                                                     IssueA.status)),
                       dates |-> {}, files |-> NoFiles]
                 ELSE NoDir]
    /\ incidents = <<>>
    /\ check_status = <<>>
    /\ checks = [k \in Keys |-> 0]
    /\ delete_confirm = None
    /\ spawned = 1
    /\ MyIssuesIdle

InitRefetch ==
    /\ AfterFetchA
    /\ limit = MaxTasks
    /\ srv = DefaultServer
    /\ out = None
    /\ config = AppConfig_default
    /\ config_file = ConfigAbsent

NextRefetch ==
    \/ Repaint
    \/ ClickFetch
    \/ ClickDownloadSelected
    \/ FetchDone
    \/ UnitStep

SpecRefetch == InitRefetch /\ [][NextRefetch]_vars

\* C31: a download unit keeps the issue key, the attachment and the cell it
\* was spawned with: no frame (a fetch of another issue included) removes
\* or changes a unit in flight, a unit writes under the directory and date
\* of its own issue and attachment only, its cell is never the state of an
\* item of another issue or another attachment, and a unit is spawned with
\* the key, attachment and cell of an item of the issue its frame shows.
C31_UnitKeepsIssue ==
    /\ [](\A u \in 1..Len(units), i \in 1..Len(download_items) :
            download_items[i].state = units[u].cell =>
               /\ current_issue.some
               /\ current_issue.val.key = units[u].issue_key
               /\ download_items[i].attachment = units[u].attachment)
    /\ [][~UnitStep =>
            /\ Len(units') >= Len(units)
            /\ SubSeq(units', 1, Len(units)) = units
            /\ disk[KeyA].files = disk'[KeyA].files
            /\ disk[KeyB].files = disk'[KeyB].files]_vars
    /\ [][\A u \in 1..Len(units) :
            UnitRun(units[u].id) /\ disk' # disk =>
               /\ \A k \in Keys \ {units[u].issue_key} : disk'[k] = disk[k]
               /\ \A f \in DOMAIN disk'[units[u].issue_key].files :
                     f \in DOMAIN disk[units[u].issue_key].files
                     \/ f[1] = format_date(units[u].attachment.created)]_vars
    /\ [][\A u \in (Len(units) + 1)..Len(units') :
            /\ current_issue'.some
            /\ units'[u].issue_key = current_issue'.val.key
            /\ \E i \in 1..Len(download_items') :
                  /\ download_items'[i].attachment = units'[u].attachment
                  /\ download_items'[i].state = units'[u].cell]_vars

\* issue B-2 is shown while the unit spawned for A-1 has written its file
\* under A-1 and nothing is under B-2
C31_Witness ==
    /\ current_issue.some /\ current_issue.val.key = KeyB
    /\ units = <<>>
    /\ <<format_date(Att1.created), Att1.filename>> \in DOMAIN disk[KeyA].files
    /\ disk[KeyB].files = NoFiles

(***************************************************************************)
(* Two fetch commands in a row: A-1 is typed and fetched, then B-2, with   *)
(* the two tasks ending and their results being processed in any order.    *)
(* No other task is started, so spawned counts the commands made.          *)
(***************************************************************************)
FetchCommands == <<<<"a", "-", "1">>, <<" ", "B", "-", "2">>>>

InitFetches ==
    /\ InitApp
    /\ limit = Len(FetchCommands)
    /\ srv = DefaultServer
    /\ out = None
    /\ config = AppConfig_default
    /\ config_file = ConfigAbsent

\* the next command of FetchCommands: its text in the key field, then Fetch
ClickFetchNext ==
    /\ spawned < Len(FetchCommands)
    /\ FetchOf({FetchCommands[spawned + 1]})

NextFetches ==
    \/ Repaint
    \/ ClickFetchNext
    \/ FetchDone

SpecFetches == InitFetches /\ [][NextFetches]_vars

\* every command was made, every fetch has ended and no result of a
\* successful fetch waits to be processed
FetchesSettled ==
    /\ spawned = Len(FetchCommands)
    /\ \A k \in Keys : fetches[k] = 0
    /\ ~(fetch_status.some /\ fetch_status.val.ok)

\* C32: once every fetch has ended and its result has been processed, the
\* issue shown and its download items are those of the key requested last.
C32_LatestFetchWins ==
    FetchesSettled /\ current_issue.some =>
        /\ current_issue.val.key = KeyB
        /\ Len(download_items) = Len(RemoteAttachments(KeyB))
        /\ \A i \in 1..Len(download_items) :
              download_items[i].attachment = RemoteAttachments(KeyB)[i]

\* both fetches are in flight
C32_Witness ==
    /\ fetches[KeyA] = 1 /\ fetches[KeyB] = 1
    /\ ~current_issue.some

(***************************************************************************)
(* Deleting folders from the incidents manager.                            *)
(***************************************************************************)
\* the list as the buttons and the dialog of this frame meet it: after the
\* status updates the frame has taken
IncidentsAtInvocation ==
    apply_updates([Cur EXCEPT !.check_status = <<>>], check_status,
                  [i \in 1..Len(check_status) |-> "ok"], 1).incidents

\* C33: a folder is removed only for an incident whose record, at the moment
\* delete_folder is called for it, is closed or marked for deletion.
C33_DeleteOnlyClosedOrMarked ==
    [][\A k \in Keys :
         disk[k].exists /\ ~disk'[k].exists
         => \E i \in 1..Len(IncidentsAtInvocation) :
               /\ IncidentsAtInvocation[i].control.issue_key = k
               /\ deletable(IncidentsAtInvocation[i])]_vars

\* the dialog is open for a listed incident that is open and unmarked
C33_Witness ==
    /\ DialogShown
    /\ disk[delete_confirm.val].exists
    /\ \E i \in 1..Len(incidents) :
          /\ incidents[i].control.issue_key = delete_confirm.val
          /\ ~deletable(incidents[i])

Listed(k, list) ==
    \E i \in 1..Len(list) : list[i].control.issue_key = k

\* C34: a delete command (the confirmed deletion, Delete All Marked) takes
\* an incident off the list only if delete_folder succeeded for it, so that
\* its folder is gone; an incident whose folder could not be removed stays.
C34_RemovedOnlyIfDeleted ==
    [][ClickConfirm \/ ClickDeleteAllMarked
       => \A k \in Keys :
             Listed(k, incidents) /\ ~Listed(k, incidents')
             => ~disk'[k].exists]_vars

\* C35: a frame that takes the queued status-check results writes no control
\* file for a key that has no incident in the list, and does not create its
\* directory: the result of a check whose incident was removed is dropped.
C35_StaleResultDiscarded ==
    [][check_status # <<>> /\ check_status' = <<>>
       => \A n \in 1..Len(check_status) :
             LET key == check_status[n][1] IN
             ~Listed(key, incidents)
             => /\ disk'[key].exists => disk[key].exists
                /\ disk'[key].exists => disk'[key].ctrl = disk[key].ctrl]_vars

\* the successful result of a check is queued for an incident that is no
\* longer listed and whose folder was deleted, the Incidents Manager shown
C35_Witness ==
    /\ ManagerShown
    /\ \E n \in 1..Len(check_status) :
          /\ check_status[n][2].ok
          /\ ~Listed(check_status[n][1], incidents)
          /\ ~disk[check_status[n][1]].exists

(***************************************************************************)
(* Fetching an issue again after a download. The run starts where the      *)
(* first attachment of A-1 is Done under its plain name; the issue may be   *)
(* fetched again and the download commands given, and nothing deletes the  *)
(* folder.                                                                 *)
(***************************************************************************)
NextFetchAgain ==
    \/ Repaint
    \/ ClickFetchA
    \/ FetchDone
    \/ ClickDeselectAll
    \/ ClickDownloadSelected
    \/ ClickDownloadAll
    \/ UnitStep

\* room for the fetch and for a unit on each of the issue's two items
InitFetchAgain ==
    /\ AfterFirstDownload
    /\ limit = MaxRunTasks + 1
    /\ srv = DefaultServer
    /\ out = None
    /\ config = AppConfig_default
    /\ config_file = ConfigAbsent

SpecFetchAgain == InitFetchAgain /\ [][NextFetchAgain]_vars

\* the path date/filename of an attachment, without a suffix
PlainPath(att) == <<format_date(att.created), att.filename>>

\* C36: a unit that ends in Done under the attachment's plain file name
\* leaves the file at the plain path, and the file stays; an item created by
\* a later fetch of the issue for an attachment whose plain path exists is
\* AlreadyOnDisk and, when nothing is clicked in that frame, unselected; an
\* AlreadyOnDisk item stays so, and no command spawns a unit for it.
C36_NoSecondDownload ==
    /\ [][\A i \in 1..Len(units) :
            /\ Saves(i)
            /\ units[i].path = units[i].attachment.filename
            /\ units[i].cell \in DOMAIN cells'
            /\ cells'[units[i].cell] = Done
            => PlainPath(units[i].attachment) \in DOMAIN FilesOf(disk', i)]_vars
    /\ [][\A k \in Keys : DOMAIN disk[k].files \subseteq DOMAIN disk'[k].files]_vars
    /\ [][\A i \in 1..Len(download_items') :
            LET item == download_items'[i] IN
            /\ item.state \notin DOMAIN cells
            /\ PlainPath(item.attachment) \in DOMAIN disk[current_issue'.val.key].files
            => /\ cells'[item.state] = AlreadyOnDisk
               /\ Repaint => ~item.selected]_vars
    /\ [][\A c \in KeptCells :
            cells[c] = AlreadyOnDisk => cells'[c] = AlreadyOnDisk]_vars
    /\ [][\A j \in (Len(units) + 1)..Len(units') :
            /\ units'[j].started_from # "AlreadyOnDisk"
            /\ cells'[units'[j].cell] # AlreadyOnDisk]_vars

\* the issue was fetched again, the item of the attachment downloaded before
\* is AlreadyOnDisk, Download All has ticked it, and no unit runs for it
C36_Witness ==
    /\ current_issue = Some(IssueA)
    /\ \E i \in 1..Len(download_items) :
          /\ download_items[i].attachment = Att1
          /\ download_items[i].state \notin {1, 2}
          /\ download_items[i].selected
          /\ cells[download_items[i].state] = AlreadyOnDisk
          /\ UnitsOn(units, download_items[i].state) = {}
    /\ disk[KeyA].files[PlainPath(Att1)] = Att1.id

(***************************************************************************)
(* The "My Open Cases" panel: the application with a tracker URL and an    *)
(* e-mail address configured. The search answers with no case, with one    *)
(* case, or fails.                                                         *)
(***************************************************************************)
ConfiguredApp ==
    [AppConfig_default EXCEPT !.jira_url = <<"u">>, !.email = <<"e">>,
                              !.api_token = <<"t">>]

MyIssuesLists == {<<>>, <<SearchIssue(KeyA, StOpen)>>}

MyIssuesServers ==
    {[v \in {"3", "2"} |->
         Http(200, "application/json", "json", StOpen) @@ [issues |-> l]] :
        l \in MyIssuesLists}
    \cup {[v \in {"3", "2"} |-> TransportErr]}

InitMyIssues ==
    /\ InitApp
    /\ limit = MaxTasks
    /\ srv = DefaultServer
    /\ out = None
    /\ config = ConfiguredApp
    /\ config_file = ConfigAbsent

\* the panel as this frame draws it, after the frame's automatic load and
\* the result it takes
PanelNow == panel_branch(take_my_result(auto_load(Cur)))

PanelShows(branch) ==
    tab = "Incident" /\ panel_branch(Cur) = branch /\ PanelNow = branch

ClickRetry == PanelShows("error") /\ Frame(Cur, "retry", 0)

ClickRefresh == PanelShows("list") /\ Frame(Cur, "refresh", 0)

\* the key button of a listed case
ClickCase ==
    /\ PanelShows("list")
    /\ \E i \in 1..Len(my_issues) :
          LET listed == take_my_result(auto_load(Cur)).my_issues IN
          /\ i <= Len(listed)
          /\ Frame(Cur, "case", listed[i].key)

\* the task of load_my_issues ends: it stores its result
LoadDone ==
    \E server \in MyIssuesServers :
        /\ loads > 0
        /\ loads' = loads - 1
        /\ my_issues_status' = Some(fetch_my_issues(server).result)
        /\ UNCHANGED <<tab, fetch_status, current_issue, download_items,
                       cells, units, fetches, disk, incidents, check_status,
                       checks, delete_confirm, spawned, my_issues,
                       my_issues_loading, my_issues_error, limit, config,
                       config_file, srv, out>>

NextMyIssues ==
    \/ Repaint
    \/ ClickRetry
    \/ ClickRefresh
    \/ ClickCase
    \/ LoadDone
    \/ FetchDone

SpecMyIssues == InitMyIssues /\ [][NextMyIssues]_vars

\* C37: at most one fetch_my_issues request is in flight at any time.
C37_OneLoadInFlight == loads <= 1

\* a load is in flight and marked running while the list of an earlier load
\* is shown with its Refresh button
C37_Witness ==
    /\ loads = 1
    /\ my_issues_loading
    /\ PanelShows("list")

\* C38: once the automatic load has been made, a step issues a further
\* fetch_my_issues request only when it is a click on Retry or on Refresh.
\* The first task of a run is the automatic load.
C38_LoadOnlyOnDemand ==
    [][loads' > loads /\ spawned > 0 => ClickRetry \/ ClickRefresh]_vars

\* the result of the automatic load, an empty list, has been processed:
\* nothing is listed, no error is shown, no load runs
C38_Witness ==
    /\ spawned = 1
    /\ loads = 0
    /\ ~my_issues_status.some
    /\ ~my_issues_loading
    /\ my_issues = <<>>
    /\ ~my_issues_error.some

====
